---- MODULE Spec2Model ----
(***************************************************************************)
(* Campus services marketplace: bookings, payments, reviews and orders.    *)
(* Each HTTP handler (and each admin-site save) is one atomic action; the  *)
(* variable resp holds the request that was handled last and its answer.   *)
(* Model-layer validation (clean / save) and serializer validation are     *)
(* operators that the handler actions call, as the views call them.        *)
(***************************************************************************)
EXTENDS Integers, Sequences, FiniteSets, TLC

(***************************************************************************)
(* Bounds of the model.                                                    *)
(***************************************************************************)
MaxBookings == 2
MaxDate == 1
MaxNow == 1
MaxPayments == 1
MaxOrders == 2
MaxReviews == 3

None == "None"

(***************************************************************************)
(* Users and services: a fixed directory of rows.                          *)
(***************************************************************************)
Students == {"s1", "s2", "s3"}
Vendors == {"v1", "v2"}
Admins == {"a1"}
Users == Students \cup Vendors \cup Admins

\* The server's workers: each handles one request at a time.
Workers == {"w1", "w2"}

\* The users who send requests in the booking, payment and order scenarios.
Clients == {"s1", "s2", "v1", "v2", "a1"}

USER_TYPE_CHOICES == {"student", "vendor", "admin"}

Services == {"svcA", "svcB", "svcC"}

ServiceRow(s) ==
    CASE s = "svcA" -> [vendor |-> "v1", service_type |-> "booking", is_available |-> TRUE]
      [] s = "svcB" -> [vendor |-> "v2", service_type |-> "ordering", is_available |-> TRUE]
      [] OTHER      -> [vendor |-> "v1", service_type |-> "booking", is_available |-> FALSE]

Dates == 1..MaxDate

VARIABLES
    user_type,      \* User.user_type of every user
    now,            \* timezone.now()
    bookings,       \* Booking rows: sequence, id = index
    payments,       \* Payment rows: sequence, id = index
    orders,         \* Order rows: sequence, id = index
    reviews,        \* Review rows: sequence of [service, user, rating], id = index
    rating,         \* Service.rating per service: << >> when null, else <<hundredths>>
    total_ratings,  \* Service.total_ratings, per service
    resp,           \* the last request and its HTTP answer
    refresh_tokens,        \* refresh tokens ever signed: sequence of [user, expired], id = index
    access_tokens,         \* access tokens ever signed: sequence of [user, expired], id = index
    blacklisted_tokens,    \* BlacklistedToken rows (users app): set of token ids
    outstanding_blacklist, \* tokens blacklisted by the token library itself
    used_refresh,          \* history: tokens that refresh_token_view has accepted
    deleted_users,         \* users whose row has been deleted
    connections,           \* WebSocket connections: sequence, channel = index
    groups,                \* channel layer: set of [group, channel]
    notifications,         \* realtime Notification rows: sequence, id = index
    preferences,           \* realtime NotificationPreference per user: << >> or <<row>>
    pushed,                \* messages handed to the channel layer: set of [group, type, notification]
    channel_fault,         \* which channel-layer call currently fails ("none": none)
    clock,                 \* timezone.now().time(), in hours
    order_items,           \* OrderItem rows: sequence, id = index
    applications,          \* VendorApplication rows: sequence, id = index
    create_procs,          \* booking create requests in flight, by worker
    refresh_procs          \* token refresh requests in flight, by worker

authVars ==
    <<refresh_tokens, access_tokens, blacklisted_tokens, outstanding_blacklist, used_refresh,
      deleted_users>>

coreVars == <<user_type, now, bookings, payments, orders, reviews, rating, total_ratings>>

wsVars == <<connections, groups>>

notifVars == <<notifications, preferences, pushed, channel_fault, clock>>

\* Everything outside the booking, order, payment and review tables.
procVars == <<create_procs, refresh_procs>>

laterVars == <<authVars, wsVars, order_items, applications, procVars>>

vars == <<coreVars, resp, authVars, wsVars, notifVars, order_items, applications, procVars>>

(***************************************************************************)
(* Serializer mechanics shared by every ModelSerializer of the code: keys  *)
(* of the input that are not declared fields are dropped, and with         *)
(* partial=True a declared field that is absent is simply not updated.     *)
(***************************************************************************)
ValidatedData(data, fields) == [k \in (DOMAIN data) \cap fields |-> data[k]]

ApplyUpdate(instance, vd) ==
    [f \in DOMAIN instance |-> IF f \in DOMAIN vd THEN vd[f] ELSE instance[f]]

\* The last request: operation, requester, object id, argument, and the
\* HTTP status of the answer.
ResponseArg(op, by, obj, arg, code) ==
    [op |-> op, by |-> by, obj |-> obj, arg |-> arg, code |-> code]

Response(op, by, obj, code) == ResponseArg(op, by, obj, None, code)

(***************************************************************************)
(* Real-time notification service (realtime_notifications).  The service   *)
(* is a function of the notification tables and the channel layer: it is   *)
(* written here on a record [rows, prefs, sent, ret] so that a handler     *)
(* that sends several notifications can chain the calls; ret is the id of  *)
(* the notification returned, 0 for None.                                  *)
(***************************************************************************)
MaxClock == 2

Hours == 0..MaxClock

GroupName(kind, id) == [kind |-> kind, id |-> id]

NOTIFICATION_TYPES ==
    { "booking_created", "booking_cancelled", "booking_confirmed", "booking_completed",
      "order_created", "order_cancelled", "order_confirmed", "payment_received",
      "review_received", "complaint_received", "system_announcement" }

PreferenceFlags ==
    { "booking_notifications", "order_notifications", "payment_notifications",
      "review_notifications", "complaint_notifications", "system_notifications" }

\* NotificationPreference.objects.create(user=user): the field defaults.
DefaultPreference ==
    [ booking_notifications |-> TRUE, order_notifications |-> TRUE,
      payment_notifications |-> TRUE, review_notifications |-> TRUE,
      complaint_notifications |-> TRUE, system_notifications |-> TRUE,
      quiet_hours_start |-> << >>, quiet_hours_end |-> << >> ]

\* Mutant of should_receive_notification: order types read the booking flag.
should_receive_notification_OrderAsBooking(pref, notification_type) ==
    IF notification_type \in {"booking_created", "booking_cancelled", "booking_confirmed",
                              "booking_completed", "order_created", "order_cancelled",
                              "order_confirmed"}
    THEN pref.booking_notifications
    ELSE IF notification_type = "payment_received" THEN pref.payment_notifications
    ELSE IF notification_type = "review_received" THEN pref.review_notifications
    ELSE IF notification_type = "complaint_received" THEN pref.complaint_notifications
    ELSE IF notification_type = "system_announcement" THEN pref.system_notifications
    ELSE TRUE

\* NotificationPreference.should_receive_notification: type_mapping.get(type, True).
should_receive_notification(pref, notification_type) ==
    IF notification_type \in {"booking_created", "booking_cancelled", "booking_confirmed",
                              "booking_completed"}
    THEN pref.booking_notifications
    ELSE IF notification_type \in {"order_created", "order_cancelled", "order_confirmed"}
    THEN pref.order_notifications
    ELSE IF notification_type = "payment_received" THEN pref.payment_notifications
    ELSE IF notification_type = "review_received" THEN pref.review_notifications
    ELSE IF notification_type = "complaint_received" THEN pref.complaint_notifications
    ELSE IF notification_type = "system_announcement" THEN pref.system_notifications
    ELSE TRUE

NotificationState ==
    [rows |-> notifications, prefs |-> preferences, sent |-> pushed, ret |-> 0]

\* Mutant of _send_websocket_notification: the row is marked sent whether or
\* not the push went through.
send_websocket_notification_AlwaysSent(ns, user, id) ==
    [ns EXCEPT !.rows[id].is_sent = TRUE]

\* NotificationService._send_websocket_notification: push to user_<id>, then
\* to vendor_<id> for a vendor, then mark_as_sent, then the count update.  The
\* first failing call ends it; the exception is logged and swallowed.
send_websocket_notification(ns, user, id) ==
    LET msg(kind, type) == [group |-> GroupName(kind, user), type |-> type, notification |-> id]
        s1 == [ns EXCEPT !.sent = @ \cup {msg("user", "notification_message")}]
        s2 == IF user_type[user] = "vendor"
              THEN [s1 EXCEPT !.sent = @ \cup {msg("vendor", "vendor_notification")}]
              ELSE s1
        s3 == [s2 EXCEPT !.rows[id].is_sent = TRUE]
        s4 == [s3 EXCEPT !.sent = @ \cup {msg("user", "notification_count_update")}]
    IN  IF channel_fault = "group_send" THEN ns
        ELSE IF channel_fault = "vendor_send" /\ user_type[user] = "vendor" THEN s1
        ELSE IF channel_fault = "count_send" THEN s3
        ELSE s4

\* NotificationService._should_send_notification, the preference row it
\* creates included: <<answer, state>>.
should_send_notification(ns, user, notification_type) ==
    IF ns.prefs[user] = << >>
    THEN <<TRUE, [ns EXCEPT !.prefs[user] = <<DefaultPreference>>]>>
    ELSE <<should_receive_notification(ns.prefs[user][1], notification_type), ns>>

\* NotificationService.send_notification.
send_notification(ns, recipient, notification_type, related_booking) ==
    LET chk == should_send_notification(ns, recipient, notification_type)
        id == Len(ns.rows) + 1
        row == [recipient |-> recipient, notification_type |-> notification_type,
                is_sent |-> FALSE, related_booking |-> related_booking]
    IN  IF ~ chk[1]
        THEN [chk[2] EXCEPT !.ret = 0]
        ELSE send_websocket_notification(
                 [chk[2] EXCEPT !.rows = Append(@, row), !.ret = id], recipient, id)

\* NotificationService.send_booking_notification: one notification for the
\* service's vendor, one for the student.
send_booking_notification(ns, booking, svc, student) ==
    send_notification(
        send_notification(ns, ServiceRow(svc).vendor, "booking_created", booking),
        student, "booking_confirmed", booking)

(***************************************************************************)
(* Bookings.                                                               *)
(***************************************************************************)
BookingStatuses == {"pending", "confirmed", "cancelled", "completed"}

BookingIds == DOMAIN bookings

\* Mutant of BookingClean: the double-booking rule is missing.
BookingClean_NoClash(b, id, rows) ==
    user_type[b.student] = "student"

\* Mutant of BookingClean: the student's user_type is not looked at.
BookingClean_AnyUser(b, id, rows) ==
    ~ \E j \in DOMAIN rows :
          /\ j # id
          /\ rows[j].service = b.service
          /\ rows[j].booking_date = b.booking_date

\* Mutant of BookingClean: only pending and confirmed rows hold their slot.
BookingClean_ActiveOnly(b, id, rows) ==
    /\ user_type[b.student] = "student"
    /\ ~ \E j \in DOMAIN rows :
            /\ j # id
            /\ rows[j].service = b.service
            /\ rows[j].booking_date = b.booking_date
            /\ rows[j].booking_status \in {"pending", "confirmed"}

\* Booking.clean, run by Booking.save through full_clean, and backed by the
\* unique_service_booking constraint: only students book; no other row has
\* the same service and booking_date.
BookingClean(b, id, rows) ==
    /\ user_type[b.student] = "student"
    /\ ~ \E j \in DOMAIN rows :
            /\ j # id
            /\ rows[j].service = b.service
            /\ rows[j].booking_date = b.booking_date

\* BookingSerializer.validate_booking_date
validate_booking_date(value) == value > now

\* BookingSerializer.validate; instance is None (0) for a new booking.
BookingSerializerValidate(attrs, instance, rows) ==
    /\ ServiceRow(attrs.service).is_available
    /\ instance = 0 =>
          ~ \E j \in DOMAIN rows :
                /\ rows[j].service = attrs.service
                /\ rows[j].booking_date = attrs.booking_date
                /\ rows[j].booking_status \in {"pending", "confirmed"}

\* BookingViewSet.get_queryset
BookingVisible(u, b) ==
    CASE user_type[u] = "student" -> b.student = u
      [] user_type[u] = "vendor"  -> ServiceRow(b.service).vendor = u
      [] user_type[u] = "admin"   -> TRUE
      [] OTHER -> FALSE

UnchangedOthersBC == UNCHANGED <<user_type, payments, orders, reviews, rating, total_ratings, laterVars>>

UnchangedOthersB == UnchangedOthersBC /\ UNCHANGED notifVars

\* The fields of BookingSerializer a request can write: student and
\* created_at are read-only, the name fields are read-only by declaration.
BookingWritableFields == {"service", "booking_date", "booking_status", "notes"}

\* Mutant of BookingSavedRow: a student sent with the request is kept.
BookingSavedRow_StudentFromRequest(data, u) ==
    [service |-> data.service,
     student |-> IF "student" \in DOMAIN data THEN data.student ELSE u,
     booking_date |-> data.booking_date,
     booking_status |-> data.booking_status]

\* perform_create: serializer.save(student=request.user) on the validated data.
BookingSavedRow(data, u) ==
    LET vd == ValidatedData(data, BookingWritableFields) IN
    [service |-> vd.service, student |-> u, booking_date |-> vd.booking_date,
     booking_status |-> vd.booking_status]

\* What the record of a create request keeps of its data: the student it
\* named, if any, and the service and date it asked for.
BookingRequestEcho(data) ==
    [student |-> IF "student" \in DOMAIN data THEN data.student ELSE None,
     service |-> data.service,
     booking_date |-> data.booking_date]

\* POST /api/bookings/ (CreateModelMixin.create + perform_create + Booking.save).
\* A slot clash found only by the model layer surfaces either as the
\* serializer's derived uniqueness validator (400) or as the ValidationError
\* of full_clean (500), depending on the framework release.
BookingCreateData(u, data) ==
    LET attrs == ValidatedData(data, BookingWritableFields)
        row == BookingSavedRow(data, u)
    IN  /\ UnchangedOthersBC
        /\ UNCHANGED <<now, channel_fault, clock>>
        /\ IF \/ ~ validate_booking_date(attrs.booking_date)
              \/ ~ BookingSerializerValidate(attrs, 0, bookings)
           THEN /\ resp' = ResponseArg("booking_create", u, 0, BookingRequestEcho(data), 400)
                /\ UNCHANGED <<bookings, notifications, preferences, pushed>>
           ELSE IF ~ BookingClean(row, 0, bookings)
           THEN /\ \E code \in (IF user_type[u] = "student" THEN {400, 500} ELSE {500}) :
                      resp' = ResponseArg("booking_create", u, 0, BookingRequestEcho(data), code)
                /\ UNCHANGED <<bookings, notifications, preferences, pushed>>
           ELSE /\ Len(bookings) < MaxBookings
                /\ bookings' = Append(bookings, row)
                /\ LET ns == send_booking_notification(
                                  NotificationState, Len(bookings) + 1, row.service, row.student) IN
                      /\ notifications' = ns.rows
                      /\ preferences' = ns.prefs
                      /\ pushed' = ns.sent
                /\ resp' = ResponseArg("booking_create", u, Len(bookings) + 1,
                                       BookingRequestEcho(data), 201)

\* A create request that sends service, booking_date and booking_status.
BookingCreate(u, svc, date, st) ==
    BookingCreateData(u, [service |-> svc, booking_date |-> date, booking_status |-> st])

\* PUT /api/bookings/{id}/ (UpdateModelMixin.update + perform_update + Booking.save)
BookingUpdate(u, id, svc, date, st) ==
    LET b == bookings[id]
        attrs == [service |-> svc, booking_date |-> date, booking_status |-> st]
        new == ApplyUpdate(b, attrs)
    IN  /\ UnchangedOthersB
        /\ UNCHANGED now
        /\ IF ~ BookingVisible(u, b)
           THEN /\ resp' = Response("booking_update", u, id, 404)
                /\ UNCHANGED bookings
           ELSE IF ~ validate_booking_date(date) \/ ~ BookingSerializerValidate(attrs, id, bookings)
           THEN /\ resp' = Response("booking_update", u, id, 400)
                /\ UNCHANGED bookings
           ELSE IF \/ (user_type[u] = "student" /\ b.student # u)
                   \/ (user_type[u] = "vendor" /\ ServiceRow(b.service).vendor # u)
           THEN /\ resp' = Response("booking_update", u, id, 500)
                /\ UNCHANGED bookings
           ELSE IF ~ BookingClean(new, id, bookings)
           THEN /\ \E code \in (IF user_type[new.student] = "student" THEN {400, 500} ELSE {500}) :
                      resp' = Response("booking_update", u, id, code)
                /\ UNCHANGED bookings
           ELSE /\ bookings' = [bookings EXCEPT ![id] = new]
                /\ resp' = Response("booking_update", u, id, 200)

\* BookingStatusUpdateSerializer: Meta.fields and its validate_status method.
BookingStatusUpdateFields == {"booking_status"}

BookingValidTransitions(current_status) ==
    CASE current_status = "pending"   -> {"confirmed", "cancelled"}
      [] current_status = "confirmed" -> {"completed", "cancelled"}
      [] current_status = "completed" -> {}
      [] current_status = "cancelled" -> {}
      [] OTHER -> {}

validate_status(instance, value) ==
    value \in BookingValidTransitions(instance.booking_status)

\* is_valid(): a validate_<name> method runs for the declared field <name>
\* when that field is present in the input.
BookingStatusUpdateIsValid(instance, data) ==
    LET vd == ValidatedData(data, BookingStatusUpdateFields)
    IN  /\ "booking_status" \in DOMAIN vd => vd["booking_status"] \in BookingStatuses
        /\ "status" \in DOMAIN vd => validate_status(instance, vd["status"])

\* The three status actions share this body; they differ in the role check
\* and in the input they hand to the serializer.
BookingStatusRequest(op, u, id, allowed, data) ==
    LET b == bookings[id]
        vd == ValidatedData(data, BookingStatusUpdateFields)
        new == ApplyUpdate(b, vd)
    IN  /\ UnchangedOthersB
        /\ UNCHANGED now
        /\ IF ~ BookingVisible(u, b)
           THEN /\ resp' = Response(op, u, id, 500)
                /\ UNCHANGED bookings
           ELSE IF ~ allowed
           THEN /\ resp' = Response(op, u, id, 403)
                /\ UNCHANGED bookings
           ELSE IF ~ BookingStatusUpdateIsValid(b, data)
           THEN /\ resp' = Response(op, u, id, 400)
                /\ UNCHANGED bookings
           ELSE IF ~ BookingClean(new, id, bookings)
           THEN /\ resp' = Response(op, u, id, 500)
                /\ UNCHANGED bookings
           ELSE /\ bookings' = [bookings EXCEPT ![id] = new]
                /\ resp' = Response(op, u, id, 200)

IsServiceVendor(u, b) == user_type[u] = "vendor" /\ ServiceRow(b.service).vendor = u

CanCancel(u, b) ==
    \/ (user_type[u] = "student" /\ b.student = u)
    \/ (user_type[u] = "vendor" /\ ServiceRow(b.service).vendor = u)
    \/ user_type[u] = "admin"

\* POST /api/bookings/{id}/confirm/
confirm(u, id) ==
    BookingStatusRequest("confirm", u, id, IsServiceVendor(u, bookings[id]),
                         [k \in {"status"} |-> "confirmed"])

\* POST /api/bookings/{id}/cancel/
cancel(u, id) ==
    BookingStatusRequest("cancel", u, id, CanCancel(u, bookings[id]),
                         [k \in {"status"} |-> "cancelled"])

\* POST /api/bookings/{id}/complete/
complete(u, id) ==
    BookingStatusRequest("complete", u, id, IsServiceVendor(u, bookings[id]),
                         [k \in {"status"} |-> "completed"])

\* The clock advances.
Tick ==
    /\ now < MaxNow
    /\ now' = now + 1
    /\ resp' = Response("tick", None, 0, 0)
    /\ UNCHANGED bookings
    /\ UnchangedOthersB

(***************************************************************************)
(* Orders.                                                                 *)
(***************************************************************************)
OrderStatuses ==
    {"pending", "confirmed", "preparing", "ready", "delivering", "completed", "cancelled"}

OrderIds == DOMAIN orders

\* Order.clean
OrderClean(o) ==
    /\ user_type[o.customer] = "student"
    /\ ServiceRow(o.service).service_type = "ordering"
    /\ ServiceRow(o.service).is_available

\* OrderViewSet.get_queryset
OrderVisible(u, o) ==
    CASE user_type[u] = "student" -> o.customer = u
      [] user_type[u] = "vendor"  -> ServiceRow(o.service).vendor = u
      [] user_type[u] = "admin"   -> TRUE
      [] OTHER -> FALSE

\* The attributes of the Order model, and the fields OrderSerializer declares.
\* A declared field that is no attribute of the model makes the serializer
\* raise ImproperlyConfigured as soon as its fields are built.
OrderModelAttrs ==
    {"id", "service", "customer", "special_instructions", "delivery_address",
     "order_status", "total_amount", "created_at", "updated_at"}

OrderSerializerModelFields ==
    {"id", "service", "customer", "quantity", "special_instructions",
     "delivery_address", "order_status", "total_amount", "created_at", "updated_at"}

OrderSerializerUsable == OrderSerializerModelFields \subseteq OrderModelAttrs

UnchangedOthersO ==
    UNCHANGED <<user_type, now, bookings, payments, reviews, rating, total_ratings, laterVars, notifVars>>

RECURSIVE SumTotalPrice(_, _)
SumTotalPrice(items, order) ==
    IF items = << >> THEN 0
    ELSE (IF Head(items).order = order THEN Head(items).total_price ELSE 0)
         + SumTotalPrice(Tail(items), order)

\* Order.calculate_total: the total_price of the order's items.
calculate_total(id) == SumTotalPrice(order_items, id)

\* Order.save of a stored order: the total is computed only while it is
\* not set (None or zero).
OrderSave(o, id) ==
    [o EXCEPT !.total_amount = IF @ = 0 THEN calculate_total(id) ELSE @]

\* Admin site, add order (OrderAdmin + Order.save).  The form runs
\* Order.clean; Order.save then computes the total of a row that has no
\* items yet, which either yields 0 or fails on the unsaved instance,
\* depending on the framework release.
OrderAdminAdd(a, svc, cust, st) ==
    LET row == [service |-> svc, customer |-> cust, order_status |-> st, total_amount |-> 0]
    IN  /\ user_type[a] = "admin"
        /\ UnchangedOthersO
        /\ IF ~ OrderClean(row)
           THEN /\ resp' = Response("order_admin_add", a, 0, 200)
                /\ UNCHANGED orders
           ELSE \/ /\ resp' = Response("order_admin_add", a, 0, 500)
                   /\ UNCHANGED orders
                \/ /\ Len(orders) < MaxOrders
                   /\ orders' = Append(orders, row)
                   /\ resp' = Response("order_admin_add", a, Len(orders) + 1, 302)

\* POST /api/orders/ (CreateModelMixin.create with OrderSerializer)
OrderCreate(u, svc) ==
    LET row == [service |-> svc, customer |-> u, order_status |-> "pending", total_amount |-> 0]
    IN  /\ UnchangedOthersO
        /\ IF ~ OrderSerializerUsable
           THEN /\ resp' = Response("order_create", u, 0, 500)
                /\ UNCHANGED orders
           ELSE IF ~ (ServiceRow(svc).service_type = "ordering" /\ ServiceRow(svc).is_available)
           THEN /\ resp' = Response("order_create", u, 0, 400)
                /\ UNCHANGED orders
           ELSE IF ~ OrderClean(row)
           THEN /\ resp' = Response("order_create", u, 0, 500)
                /\ UNCHANGED orders
           ELSE /\ Len(orders) < MaxOrders
                /\ orders' = Append(orders, row)
                /\ resp' = Response("order_create", u, Len(orders) + 1, 201)

\* OrderStatusUpdateSerializer
OrderStatusUpdateFields == {"order_status"}

\* Mutant of OrderValidTransitions: a cancelled order can be reopened.
OrderValidTransitions_Reopen(current_status) ==
    CASE current_status = "pending"    -> {"confirmed", "cancelled"}
      [] current_status = "confirmed"  -> {"preparing", "cancelled"}
      [] current_status = "preparing"  -> {"ready", "cancelled"}
      [] current_status = "ready"      -> {"delivering", "completed", "cancelled"}
      [] current_status = "delivering" -> {"completed", "cancelled"}
      [] current_status = "completed"  -> {}
      [] current_status = "cancelled"  -> {"pending"}
      [] OTHER -> {}

OrderValidTransitions(current_status) ==
    CASE current_status = "pending"    -> {"confirmed", "cancelled"}
      [] current_status = "confirmed"  -> {"preparing", "cancelled"}
      [] current_status = "preparing"  -> {"ready", "cancelled"}
      [] current_status = "ready"      -> {"delivering", "completed", "cancelled"}
      [] current_status = "delivering" -> {"completed", "cancelled"}
      [] current_status = "completed"  -> {}
      [] current_status = "cancelled"  -> {}
      [] OTHER -> {}

validate_order_status(instance, value) ==
    value \in OrderValidTransitions(instance.order_status)

OrderStatusUpdateIsValid(instance, data) ==
    LET vd == ValidatedData(data, OrderStatusUpdateFields)
    IN  "order_status" \in DOMAIN vd =>
            /\ vd["order_status"] \in OrderStatuses
            /\ validate_order_status(instance, vd["order_status"])

\* Body shared by confirm_order and update_status.  After a successful save
\* the answer is built with OrderSerializer.
OrderStatusRequest(op, u, id, target) ==
    LET o == orders[id]
        data == [k \in {"order_status"} |-> target]
        vd == ValidatedData(data, OrderStatusUpdateFields)
        new == ApplyUpdate(o, vd)
    IN  /\ UnchangedOthersO
        /\ IF ~ OrderVisible(u, o)
           THEN /\ resp' = ResponseArg(op, u, id, target, 500)
                /\ UNCHANGED orders
           ELSE IF user_type[u] # "vendor" \/ ServiceRow(o.service).vendor # u
           THEN /\ resp' = ResponseArg(op, u, id, target, 403)
                /\ UNCHANGED orders
           ELSE IF ~ OrderStatusUpdateIsValid(o, data)
           THEN /\ resp' = ResponseArg(op, u, id, target, 400)
                /\ UNCHANGED orders
           ELSE IF ~ OrderClean(new)
           THEN /\ resp' = ResponseArg(op, u, id, target, 500)
                /\ UNCHANGED orders
           ELSE /\ orders' = [orders EXCEPT ![id] = OrderSave(new, id)]
                /\ resp' = ResponseArg(op, u, id, target, IF OrderSerializerUsable THEN 200 ELSE 500)

\* POST /api/orders/{id}/confirm_order/
confirm_order(u, id) ==
    OrderStatusRequest("confirm_order", u, id, "confirmed")

\* POST /api/orders/{id}/update_status/ with request.data = {order_status: target}
update_status(u, id, target) ==
    OrderStatusRequest("update_status", u, id, target)

(***************************************************************************)
(* Payments.  A foreign key that is null is 0.                             *)
(***************************************************************************)
PaymentStatuses ==
    {"pending", "processing", "successful", "failed", "cancelled", "refunded"}

PaymentIds == DOMAIN payments

\* Payment.clean
PaymentClean(p) ==
    /\ p.amount > 0
    /\ ~ (p.booking = 0 /\ p.order = 0)
    /\ (p.payment_method = "mobile_money" => p.mobile_money_provider # None)
    /\ (p.payment_method = "mobile_money" => p.phone_number # None)

\* Payment.Meta.constraints: payment_has_booking_or_order
PaymentCheckConstraint(p) == p.booking # 0 \/ p.order # 0

\* Mutant of PaymentSaveAccepts: nothing requires a booking or an order.
PaymentSaveAccepts_NoLink(p) ==
    /\ p.amount > 0
    /\ (p.payment_method = "mobile_money" => p.mobile_money_provider # None)
    /\ (p.payment_method = "mobile_money" => p.phone_number # None)

\* Payment.save: clean() runs, then the row is written under the constraint.
PaymentSaveAccepts(p) == PaymentClean(p) /\ PaymentCheckConstraint(p)

UnchangedOthersP ==
    UNCHANGED <<user_type, now, orders, reviews, rating, total_ratings, laterVars, notifVars>>

\* Admin site, add payment (PaymentAdmin + Payment.save).  The form offers
\* booking and order independently; an invalid form is shown again (200), a
\* saved one redirects (302).
PaymentAdminAddUpTo(limit, a, bk, ord, amount, method, provider, phone, ref, st) ==
    LET row == [booking |-> bk, order |-> ord, amount |-> amount,
                payment_method |-> method, mobile_money_provider |-> provider,
                phone_number |-> phone, reference_number |-> ref, status |-> st]
    IN  /\ user_type[a] = "admin"
        /\ bk \in {0} \cup BookingIds
        /\ ord \in {0} \cup OrderIds
        /\ UnchangedOthersP
        /\ UNCHANGED bookings
        /\ IF ~ PaymentSaveAccepts(row)
           THEN /\ resp' = Response("payment_admin_add", a, 0, 200)
                /\ UNCHANGED payments
           ELSE /\ Len(payments) < limit
                /\ payments' = Append(payments, row)
                /\ resp' = Response("payment_admin_add", a, Len(payments) + 1, 302)

PaymentAdminAdd(a, bk, ord, amount, method, provider, phone, ref, st) ==
    PaymentAdminAddUpTo(MaxPayments, a, bk, ord, amount, method, provider, phone, ref, st)

\* PaymentSerializer: Meta.fields without the read-only ones.
PaymentSerializerWritable == {"booking", "amount", "payment_method", "status"}

\* PaymentStatusUpdateSerializer
PaymentStatusUpdateFields == {"status", "transaction_id"}

\* Mutant of PaymentValidTransitions: a failed payment may be marked successful.
PaymentValidTransitions_FailedOk(current_status) ==
    CASE current_status = "pending"    -> {"successful", "failed"}
      [] current_status = "successful" -> {}
      [] current_status = "failed"     -> {"pending", "successful"}
      [] OTHER -> {}

PaymentValidTransitions(current_status) ==
    CASE current_status = "pending"    -> {"successful", "failed"}
      [] current_status = "successful" -> {}
      [] current_status = "failed"     -> {"pending"}
      [] OTHER -> {}

payment_validate_status(instance, value) ==
    value \in PaymentValidTransitions(instance.status)

PaymentStatusUpdateIsValid(instance, data) ==
    LET vd == ValidatedData(data, PaymentStatusUpdateFields)
    IN  "status" \in DOMAIN vd =>
            /\ vd["status"] \in PaymentStatuses
            /\ payment_validate_status(instance, vd["status"])

\* The attributes of the Service model that the serializers of bookings and
\* payments read; get_booking_details reads service.name.
ServiceModelAttrs ==
    {"id", "vendor", "service_name", "description", "category", "service_type",
     "base_price", "has_flexible_pricing", "is_available", "availability_status",
     "contact_info", "location", "images", "rating", "total_ratings",
     "created_at", "updated_at", "supports_booking", "supports_ordering",
     "supports_walk_in", "requires_contact", "can_book", "can_order",
     "can_walk_in", "needs_contact", "supported_service_types", "min_price",
     "max_price"}

\* PaymentSerializer(payment).data: get_booking_details raises when the
\* payment has a booking and the attribute it reads does not exist.
PaymentSerializerRenders(p) == p.booking # 0 => "name" \in ServiceModelAttrs

\* Mutant of process_paystack_payment's booking step: the booking is left as it was.
BookingAfterPayment_Unchanged(b) == b

\* process_paystack_payment, the booking step: a pending booking becomes confirmed.
BookingAfterPayment(b) ==
    IF b.booking_status = "pending"
    THEN [b EXCEPT !.booking_status = "confirmed"]
    ELSE b

\* POST /api/payments/paystack/ ; pid = 0 stands for a missing payment_id.
process_paystack_payment(u, pid, has_reference) ==
    /\ UnchangedOthersP
    /\ IF pid = 0 \/ ~ has_reference
       THEN /\ resp' = ResponseArg("process", u, pid, has_reference, 400)
            /\ UNCHANGED <<payments, bookings>>
       ELSE IF pid \notin PaymentIds
       THEN /\ resp' = ResponseArg("process", u, pid, has_reference, 500)
            /\ UNCHANGED <<payments, bookings>>
       ELSE
         LET payment == payments[pid]
             data == [k \in {"status"} |-> "successful"]
             new == ApplyUpdate(payment, ValidatedData(data, PaymentStatusUpdateFields))
         IN  IF payment.booking = 0
             THEN /\ resp' = ResponseArg("process", u, pid, has_reference, 500)
                  /\ UNCHANGED <<payments, bookings>>
             ELSE IF bookings[payment.booking].student # u
             THEN /\ resp' = ResponseArg("process", u, pid, has_reference, 403)
                  /\ UNCHANGED <<payments, bookings>>
             ELSE IF payment.status = "successful"
             THEN /\ resp' = ResponseArg("process", u, pid, has_reference, 400)
                  /\ UNCHANGED <<payments, bookings>>
             ELSE IF ~ PaymentStatusUpdateIsValid(payment, data)
             THEN /\ resp' = ResponseArg("process", u, pid, has_reference, 400)
                  /\ UNCHANGED <<payments, bookings>>
             ELSE IF ~ PaymentSaveAccepts(new)
             THEN /\ resp' = ResponseArg("process", u, pid, has_reference, 500)
                  /\ UNCHANGED <<payments, bookings>>
             ELSE
               LET b == bookings[payment.booking]
                   newb == BookingAfterPayment(b)
               IN  /\ payments' = [payments EXCEPT ![pid] = new]
                   /\ IF newb # b /\ ~ BookingClean(newb, payment.booking, bookings)
                      THEN /\ UNCHANGED bookings
                           /\ resp' = ResponseArg("process", u, pid, has_reference, 500)
                      ELSE /\ bookings' = [bookings EXCEPT ![payment.booking] = newb]
                           /\ resp' = ResponseArg("process", u, pid, has_reference,
                                        IF PaymentSerializerRenders(new) THEN 200 ELSE 500)

\* verify_momo_payment, the permission check
PaymentCanView(u, p) ==
    CASE user_type[u] = "student" ->
            \/ (p.order # 0 /\ orders[p.order].customer = u)
            \/ (p.booking # 0 /\ bookings[p.booking].student = u)
      [] user_type[u] = "vendor" ->
            \/ (p.order # 0 /\ ServiceRow(orders[p.order].service).vendor = u)
            \/ (p.booking # 0 /\ ServiceRow(bookings[p.booking].service).vendor = u)
      [] user_type[u] = "admin" -> TRUE
      [] OTHER -> FALSE

\* POST /api/payments/verify/ ; success is the random draw below 0.8.
verify_momo_payment(u, reference_id, success) ==
    LET found == {i \in PaymentIds : payments[i].reference_number = reference_id}
    IN  /\ UnchangedOthersP
        /\ UNCHANGED bookings
        /\ IF reference_id = None
           THEN /\ resp' = ResponseArg("verify", u, 0, reference_id, 400)
                /\ UNCHANGED payments
           ELSE IF found = {}
           THEN /\ resp' = ResponseArg("verify", u, 0, reference_id, 404)
                /\ UNCHANGED payments
           ELSE IF Cardinality(found) > 1
           THEN /\ resp' = ResponseArg("verify", u, 0, reference_id, 500)
                /\ UNCHANGED payments
           ELSE
             LET pid == CHOOSE i \in found : TRUE
                 payment == payments[pid]
                 new == [payment EXCEPT !.status = "successful"]
             IN  IF ~ PaymentCanView(u, payment)
                 THEN /\ resp' = ResponseArg("verify", u, pid, reference_id, 403)
                      /\ UNCHANGED payments
                 ELSE IF payment.status = "pending" /\ success
                 THEN IF ~ PaymentSaveAccepts(new)
                      THEN /\ resp' = ResponseArg("verify", u, pid, reference_id, 500)
                           /\ UNCHANGED payments
                      ELSE /\ payments' = [payments EXCEPT ![pid] = new]
                           /\ resp' = ResponseArg("verify", u, pid, reference_id,
                                        IF new.mobile_money_provider = None THEN 500 ELSE 200)
                 ELSE /\ UNCHANGED payments
                      /\ resp' = ResponseArg("verify", u, pid, reference_id,
                                   IF payment.mobile_money_provider = None THEN 500 ELSE 200)

\* A value handed to a relation field is a primary key or a model instance;
\* PrimaryKeyRelatedField looks the value up as a primary key and answers
\* 'incorrect type' for an instance.
Instance(id) == <<"instance", id>>

IsPk(v) == v[1] = "pk"

MOBILE_MONEY_PROVIDERS == {"mtn", "vodafone", "airtel", "telecel"}

\* POST /api/payments/initiate/ ; amount 0 and ids 0 stand for absent values.
initiate_momo_payment(u, amount, phone, provider, order_id, booking_id) ==
    LET base == [k \in {"amount", "payment_method", "mobile_money_provider",
                        "phone_number", "reference_number", "transaction_id",
                        "status", "payment_notes"} |->
                    CASE k = "amount" -> amount
                      [] k = "payment_method" -> "mobile_money"
                      [] k = "mobile_money_provider" -> provider
                      [] k = "phone_number" -> phone
                      [] k = "reference_number" -> "uuid"
                      [] k = "status" -> "pending"
                      [] OTHER -> "text"]
        withOrder == IF order_id # 0 THEN ("order" :> Instance(order_id)) @@ base ELSE base
        payment_data == IF booking_id # 0
                        THEN ("booking" :> Instance(booking_id)) @@ withOrder
                        ELSE withOrder
        vd == ValidatedData(payment_data, PaymentSerializerWritable)
        valid == "booking" \in DOMAIN vd => IsPk(vd["booking"])
        row == [booking |-> IF "booking" \in DOMAIN vd THEN vd["booking"][2] ELSE 0,
                order |-> 0,
                amount |-> vd["amount"],
                payment_method |-> vd["payment_method"],
                mobile_money_provider |-> None,
                phone_number |-> None,
                reference_number |-> None,
                status |-> vd["status"]]
    IN  /\ UnchangedOthersP
        /\ UNCHANGED bookings
        /\ IF amount <= 0 \/ phone = None \/ provider \notin MOBILE_MONEY_PROVIDERS
              \/ (order_id = 0 /\ booking_id = 0)
           THEN /\ resp' = Response("initiate", u, 0, 400)
                /\ UNCHANGED payments
           ELSE IF order_id # 0 /\ order_id \notin OrderIds
           THEN /\ resp' = Response("initiate", u, 0, 400)
                /\ UNCHANGED payments
           ELSE IF order_id # 0 /\ orders[order_id].customer # u
           THEN /\ resp' = Response("initiate", u, 0, 403)
                /\ UNCHANGED payments
           ELSE IF booking_id # 0 /\ booking_id \notin BookingIds
           THEN /\ resp' = Response("initiate", u, 0, 400)
                /\ UNCHANGED payments
           ELSE IF booking_id # 0 /\ bookings[booking_id].student # u
           THEN /\ resp' = Response("initiate", u, 0, 403)
                /\ UNCHANGED payments
           ELSE IF ~ valid
           THEN /\ resp' = Response("initiate", u, 0, 400)
                /\ UNCHANGED payments
           ELSE IF ~ PaymentSaveAccepts(row)
           THEN /\ resp' = Response("initiate", u, 0, 500)
                /\ UNCHANGED payments
           ELSE /\ Len(payments) < MaxPayments
                /\ payments' = Append(payments, row)
                /\ resp' = Response("initiate", u, Len(payments) + 1, 201)

(***************************************************************************)
(* Reviews (services/models.py, services/serializers.py, services/views.py)*)
(* The comment of a review is no part of the state.                        *)
(***************************************************************************)
ReviewIds == DOMAIN reviews

\* Review.rating choices
RATING_CHOICES == 1..5

\* ServiceViewSet.get_queryset
ServiceVisible(u, s) ==
    CASE user_type[u] = "vendor"  -> ServiceRow(s).vendor = u
      [] user_type[u] = "student" -> ServiceRow(s).is_available
      [] user_type[u] = "admin"   -> TRUE
      [] OTHER -> FALSE

\* ReviewViewSet.get_queryset
ReviewVisible(u, rv) ==
    CASE user_type[u] = "student" -> rv.user = u
      [] user_type[u] = "vendor"  -> ServiceRow(rv.service).vendor = u
      [] user_type[u] = "admin"   -> TRUE
      [] OTHER -> FALSE

\* Service.clean, run by Service.save; the rows of the directory have no
\* base price at or below zero and none is of the contact type.
ServiceClean(s) == user_type[ServiceRow(s).vendor] = "vendor"

\* Review.clean, backed by the unique_user_service_review constraint
ReviewClean(rv, id, rows) ==
    /\ user_type[rv.user] = "student"
    /\ rv.rating >= 1 /\ rv.rating <= 5
    /\ ~ \E j \in DOMAIN rows :
            j # id /\ rows[j].service = rv.service /\ rows[j].user = rv.user

\* Mutant of ExistingReview: add_review finds no earlier review.
ExistingReview_None(svc, u) == {}

\* Review.objects.filter(service=service, user=user)
ExistingReview(svc, u) ==
    {i \in ReviewIds : reviews[i].service = svc /\ reviews[i].user = u}

\* .first() under the ordering -created_at: the most recent row
First(ids) == CHOOSE i \in ids : \A j \in ids : j <= i

RECURSIVE SumRatings(_, _)
SumRatings(rows, ids) ==
    IF ids = {} THEN 0
    ELSE LET i == CHOOSE x \in ids : TRUE
         IN  rows[i].rating + SumRatings(rows, ids \ {i})

\* Mutant of Round2: the average is cut off after two decimals.
Round2_Truncate(total, n) == (100 * total) \div n

\* round(total / n, 2), in hundredths; a tie goes to the even hundredth.
Round2(total, n) ==
    LET q == (100 * total) \div n
        r == (100 * total) % n
    IN  IF 2 * r < n THEN q
        ELSE IF 2 * r > n THEN q + 1
        ELSE IF q % 2 = 0 THEN q ELSE q + 1

\* Review.update_service_rating: <<rating, total_ratings>> of service svc
\* computed from the stored review rows.
update_service_rating(svc, rows) ==
    LET ids == {i \in DOMAIN rows : rows[i].service = svc}
    IN  IF ids # {}
        THEN << <<Round2(SumRatings(rows, ids), Cardinality(ids))>>, Cardinality(ids) >>
        ELSE << << >>, 0 >>

\* ReviewCreateSerializer.is_valid; a request carries its rating as r = <<value>>
\* and r = << >> when it sends none.
ReviewCreateFields == {"rating", "comment"}

ReviewData(r) == [k \in (IF r = << >> THEN {} ELSE {"rating"}) |-> r[1]]

validate_rating(value) == ~ (value < 1 \/ value > 5)

ReviewCreateIsValid(data, partial) ==
    LET vd == ValidatedData(data, ReviewCreateFields)
    IN  /\ ~ partial => "rating" \in DOMAIN vd
        /\ "rating" \in DOMAIN vd =>
              vd["rating"] \in RATING_CHOICES /\ validate_rating(vd["rating"])

UnchangedOthersR == UNCHANGED <<user_type, now, bookings, payments, orders, laterVars, notifVars>>

\* Review.save after clean: the row is written, then the service's rating is
\* recomputed and the service saved; a failing Service.clean leaves the row
\* written and the rating as it was.
ReviewWrite(op, u, id, svc, rows, ok) ==
    /\ reviews' = rows
    /\ IF ServiceClean(svc)
       THEN /\ rating' = [rating EXCEPT ![svc] = update_service_rating(svc, rows)[1]]
            /\ total_ratings' = [total_ratings EXCEPT ![svc] = update_service_rating(svc, rows)[2]]
            /\ resp' = ResponseArg(op, u, id, svc, ok)
       ELSE /\ UNCHANGED <<rating, total_ratings>>
            /\ resp' = ResponseArg(op, u, id, svc, 500)

ReviewRefuse(op, u, id, svc, code) ==
    /\ resp' = ResponseArg(op, u, id, svc, code)
    /\ UNCHANGED <<reviews, rating, total_ratings>>

\* POST /api/services/{id}/add_review/
add_review(u, svc, r) ==
    LET row == [service |-> svc, user |-> u, rating |-> r[1]]
    IN  /\ UnchangedOthersR
        /\ IF ~ ServiceVisible(u, svc)
           THEN ReviewRefuse("add_review", u, 0, svc, 500)
           ELSE IF user_type[u] # "student"
           THEN ReviewRefuse("add_review", u, 0, svc, 403)
           ELSE IF ExistingReview(svc, u) # {}
           THEN ReviewRefuse("add_review", u, 0, svc, 403)
           ELSE IF ~ ReviewCreateIsValid(ReviewData(r), FALSE)
           THEN ReviewRefuse("add_review", u, 0, svc, 400)
           ELSE IF ~ ReviewClean(row, 0, reviews)
           THEN ReviewRefuse("add_review", u, 0, svc, 500)
           ELSE /\ Len(reviews) < MaxReviews
                /\ ReviewWrite("add_review", u, Len(reviews) + 1, svc,
                               Append(reviews, row), 201)

\* PUT, PATCH /api/services/{id}/update_review/
update_review(u, svc, r) ==
    /\ UnchangedOthersR
    /\ IF ~ ServiceVisible(u, svc)
       THEN ReviewRefuse("update_review", u, 0, svc, 500)
       ELSE IF ExistingReview(svc, u) = {}
       THEN ReviewRefuse("update_review", u, 0, svc, 404)
       ELSE
         LET id == First(ExistingReview(svc, u))
             new == ApplyUpdate(reviews[id], ValidatedData(ReviewData(r), ReviewCreateFields))
         IN  IF ~ ReviewCreateIsValid(ReviewData(r), TRUE)
             THEN ReviewRefuse("update_review", u, id, svc, 400)
             ELSE IF ~ ReviewClean(new, id, reviews)
             THEN ReviewRefuse("update_review", u, id, svc, 500)
             ELSE ReviewWrite("update_review", u, id, svc,
                              [reviews EXCEPT ![id] = new], 200)

RemoveAt(rows, id) == SubSeq(rows, 1, id - 1) \o SubSeq(rows, id + 1, Len(rows))

\* DELETE /api/services/{id}/delete_review/ : the row goes, the service's
\* rating and total_ratings stay as they were.
delete_review(u, svc) ==
    /\ UnchangedOthersR
    /\ IF ~ ServiceVisible(u, svc)
       THEN ReviewRefuse("delete_review", u, 0, svc, 500)
       ELSE IF ExistingReview(svc, u) = {}
       THEN ReviewRefuse("delete_review", u, 0, svc, 404)
       ELSE /\ reviews' = RemoveAt(reviews, First(ExistingReview(svc, u)))
            /\ UNCHANGED <<rating, total_ratings>>
            /\ resp' = ResponseArg("delete_review", u, First(ExistingReview(svc, u)), svc, 200)

\* POST /api/reviews/ : ReviewCreateSerializer has no service field and
\* perform_create passes none, so Review.clean raises for every valid input.
review_create(u, r) ==
    /\ UnchangedOthersR
    /\ IF ~ ReviewCreateIsValid(ReviewData(r), FALSE)
       THEN ReviewRefuse("review_create", u, 0, None, 400)
       ELSE ReviewRefuse("review_create", u, 0, None, 500)

\* PUT (partial = FALSE), PATCH (partial = TRUE) /api/reviews/{id}/
review_update(u, id, r, partial) ==
    /\ UnchangedOthersR
    /\ IF id \notin ReviewIds \/ ~ ReviewVisible(u, reviews[id])
       THEN ReviewRefuse("review_update", u, id, None, 404)
       ELSE
         LET review == reviews[id]
             new == ApplyUpdate(review, ValidatedData(ReviewData(r), ReviewCreateFields))
         IN  IF ~ ReviewCreateIsValid(ReviewData(r), partial)
             THEN ReviewRefuse("review_update", u, id, review.service, 400)
             ELSE IF \/ (user_type[u] = "student" /\ review.user # u)
                     \/ (user_type[u] = "vendor" /\ ServiceRow(review.service).vendor # u)
             THEN ReviewRefuse("review_update", u, id, review.service, 500)
             ELSE IF ~ ReviewClean(new, id, reviews)
             THEN ReviewRefuse("review_update", u, id, review.service, 500)
             ELSE ReviewWrite("review_update", u, id, review.service,
                              [reviews EXCEPT ![id] = new], 200)

\* DELETE /api/reviews/{id}/ (DestroyModelMixin)
review_destroy(u, id) ==
    /\ UnchangedOthersR
    /\ IF id \notin ReviewIds \/ ~ ReviewVisible(u, reviews[id])
       THEN ReviewRefuse("review_destroy", u, id, None, 404)
       ELSE /\ reviews' = RemoveAt(reviews, id)
            /\ UNCHANGED <<rating, total_ratings>>
            /\ resp' = ResponseArg("review_destroy", u, id, reviews[id].service, 204)

Init ==
    /\ user_type = [u \in Users |->
                      IF u \in Students THEN "student"
                      ELSE IF u \in Vendors THEN "vendor" ELSE "admin"]
    /\ now = 0
    /\ bookings = << >>
    /\ payments = << >>
    /\ orders = << >>
    /\ reviews = << >>
    /\ rating = [s \in Services |-> << >>]
    /\ total_ratings = [s \in Services |-> 0]
    /\ resp = Response("init", None, 0, 0)
    /\ refresh_tokens = << >>
    /\ access_tokens = << >>
    /\ blacklisted_tokens = {}
    /\ outstanding_blacklist = {}
    /\ used_refresh = {}
    /\ deleted_users = {}
    /\ connections = << >>
    /\ groups = {}
    /\ notifications = << >>
    /\ preferences = [u \in Users |-> << >>]
    /\ pushed = {}
    /\ channel_fault = "none"
    /\ clock = 0
    /\ order_items = << >>
    /\ applications = << >>
    /\ create_procs = [w \in Workers |-> << >>]
    /\ refresh_procs = [w \in Workers |-> << >>]

NextBookings ==
    \/ \E u \in Clients, svc \in Services, date \in Dates, st \in BookingStatuses :
          BookingCreate(u, svc, date, st)
    \/ \E u \in Clients, id \in BookingIds, svc \in Services, date \in Dates, st \in BookingStatuses :
          BookingUpdate(u, id, svc, date, st)
    \/ \E u \in Clients, id \in BookingIds : confirm(u, id)
    \/ \E u \in Clients, id \in BookingIds : cancel(u, id)
    \/ \E u \in Clients, id \in BookingIds : complete(u, id)
    \/ Tick

SpecBookings == Init /\ [][NextBookings]_vars

\* The order scenario: targets of update_status include a value that is no
\* choice of the field.
OrderTargets == OrderStatuses \cup {"bogus"}

NextOrders ==
    \/ \E a \in Admins, svc \in Services, cust \in Clients, st \in OrderStatuses :
          OrderAdminAdd(a, svc, cust, st)
    \/ \E u \in Clients, svc \in Services : OrderCreate(u, svc)
    \/ \E u \in Clients, id \in OrderIds : confirm_order(u, id)
    \/ \E u \in Clients, id \in OrderIds, target \in OrderTargets : update_status(u, id, target)

SpecOrders == Init /\ [][NextOrders]_vars

\* The payment scenario.  Bookings are made by two students on one service,
\* orders are entered for them by the admin, and the admin enters payments
\* with these details: (payment_method, provider, phone, reference_number).
PaymentDetailInputs ==
    { <<"cash", None, None, "ref1">>,
      <<"mobile_money", "mtn", "0240000000", "ref1">>,
      <<"mobile_money", None, "0240000000", "ref1">> }

PaymentStatusInputs == {"pending", "successful", "failed", "refunded"}

\* (amount, phone, provider) of an initiate request
InitiateInputs ==
    { <<0, "0240000000", "mtn">>, <<1, None, "mtn">>,
      <<1, "0240000000", "bogus">>, <<1, "0240000000", "mtn">> }

PaymentClients == {"s1", "s2", "v1", "a1"}

NextPayments ==
    \/ \E u \in {"s1", "s2"}, date \in Dates, st \in {"pending", "completed"} :
          BookingCreate(u, "svcA", date, st)
    \/ \E a \in Admins : OrderAdminAdd(a, "svcB", "s1", "pending")
    \/ \E a \in Admins, bk \in 0..MaxBookings, ord \in 0..MaxOrders, amount \in {0, 1},
          d \in PaymentDetailInputs, st \in PaymentStatusInputs :
          PaymentAdminAdd(a, bk, ord, amount, d[1], d[2], d[3], d[4], st)
    \/ \E u \in PaymentClients, pid \in 0..(MaxPayments + 1), has_reference \in BOOLEAN :
          process_paystack_payment(u, pid, has_reference)
    \/ \E u \in PaymentClients, reference_id \in {None, "ref1", "ref2"}, success \in BOOLEAN :
          verify_momo_payment(u, reference_id, success)
    \/ \E u \in PaymentClients, i \in InitiateInputs, order_id \in 0..1, booking_id \in 0..1 :
          initiate_momo_payment(u, i[1], i[2], i[3], order_id, booking_id)

SpecPayments == Init /\ [][NextPayments]_vars

\* The review scenario.  ReviewRequests are the (requester, service) pairs of
\* the requests under /api/services/: three students on one service, one of
\* them on a second service, a student on an unavailable service, the vendor
\* on a service of their own, and the admin.
\* Ratings sent are none, one below the range and two inside it.
ReviewRequests ==
    { <<"s1", "svcA">>, <<"s2", "svcA">>, <<"s3", "svcA">>, <<"s1", "svcB">>,
      <<"s2", "svcC">>, <<"v1", "svcA">>, <<"a1", "svcA">> }

\* The requesters under /api/reviews/
ReviewClients == {"s1", "v1", "a1"}

RatingInputs == {<< >>, <<0>>, <<1>>, <<2>>}

NextReviews ==
    \/ \E q \in ReviewRequests, r \in RatingInputs : add_review(q[1], q[2], r)
    \/ \E q \in ReviewRequests, r \in RatingInputs : update_review(q[1], q[2], r)
    \/ \E q \in ReviewRequests : delete_review(q[1], q[2])
    \/ \E u \in ReviewClients, r \in RatingInputs : review_create(u, r)
    \/ \E u \in ReviewClients, id \in 1..MaxReviews, r \in RatingInputs, partial \in BOOLEAN :
          review_update(u, id, r, partial)
    \/ \E u \in ReviewClients, id \in 1..MaxReviews : review_destroy(u, id)

SpecReviews == Init /\ [][NextReviews]_vars

\* The create scenario: every way a booking, an order or a review is entered,
\* asked for by a student, a vendor and the admin.
CreateClients == {"s1", "v1", "a1"}

NextCreates ==
    \/ \E u \in CreateClients, svc \in Services, date \in Dates :
          BookingCreate(u, svc, date, "pending")
    \/ \E u \in CreateClients, svc \in {"svcA", "svcB"} : OrderCreate(u, svc)
    \/ \E a \in Admins, cust \in CreateClients : OrderAdminAdd(a, "svcB", cust, "pending")
    \/ \E q \in ReviewRequests, r \in {<<0>>, <<2>>} : add_review(q[1], q[2], r)
    \/ \E u \in CreateClients, r \in {<<0>>, <<2>>} : review_create(u, r)

SpecCreates == Init /\ [][NextCreates]_vars

(***************************************************************************)
(* Properties of the booking resource.                                     *)
(***************************************************************************)
StatusOps == {"confirm", "cancel", "complete"}

TargetOf(op) ==
    CASE op = "confirm"  -> "confirmed"
      [] op = "cancel"   -> "cancelled"
      [] op = "complete" -> "completed"

\* The requester that the view lets through to the status update.
Permitted(op, u, b) ==
    /\ BookingVisible(u, b)
    /\ IF op = "cancel" THEN CanCancel(u, b) ELSE IsServiceVendor(u, b)

\* C1: after any sequence of booking create and update requests, no two
\* stored bookings have the same service and the same booking_date.
C1_NoDoubleBooking ==
    \A i, j \in DOMAIN bookings :
        i # j => ~ ( /\ bookings[i].service = bookings[j].service
                     /\ bookings[i].booking_date = bookings[j].booking_date )

\* C1 witness: two bookings are stored and an update by the booking's own
\* student was refused by the model layer, which for a student happens only
\* on a slot clash.
C1_Witness ==
    /\ Len(bookings) = 2
    /\ resp.op = "booking_update"
    /\ resp.code = 500
    /\ user_type[resp.by] = "student"

\* The booking transition table as the claims state it.
C2_Allowed(current_status) ==
    CASE current_status = "pending"   -> {"confirmed", "cancelled"}
      [] current_status = "confirmed" -> {"completed", "cancelled"}
      [] OTHER -> {}

\* C2 (as claimed): a confirm, cancel or complete request by a permitted
\* requester on a booking whose current booking_status does not allow the
\* target status is answered with 400 and leaves booking_status unchanged.
C2_InvalidTransitionIs400 ==
    [][ (/\ resp'.op \in StatusOps
         /\ resp'.obj \in BookingIds
         /\ Permitted(resp'.op, resp'.by, bookings[resp'.obj])
         /\ TargetOf(resp'.op) \notin C2_Allowed(bookings[resp'.obj].booking_status))
        => (/\ resp'.code = 400
            /\ bookings'[resp'.obj].booking_status = bookings[resp'.obj].booking_status)
      ]_vars

\* C3 (as claimed): confirm by the owning vendor on a pending booking stores
\* 'confirmed', complete by that vendor on a confirmed booking stores
\* 'completed', a permitted cancel on a pending or confirmed booking stores
\* 'cancelled'; the answer is 200.
C3_ValidTransitionStored ==
    [][ (/\ resp'.op \in StatusOps
         /\ resp'.obj \in BookingIds
         /\ Permitted(resp'.op, resp'.by, bookings[resp'.obj])
         /\ TargetOf(resp'.op) \in C2_Allowed(bookings[resp'.obj].booking_status))
        => (/\ resp'.code = 200
            /\ bookings'[resp'.obj].booking_status = TargetOf(resp'.op))
      ]_vars

(***************************************************************************)
(* Properties of the order resource.                                       *)
(***************************************************************************)
OrderStatusOps == {"confirm_order", "update_status"}

\* The order transition table as the claim states it.
C9_Listed(current_status) ==
    CASE current_status = "pending"    -> {"confirmed", "cancelled"}
      [] current_status = "confirmed"  -> {"preparing", "cancelled"}
      [] current_status = "preparing"  -> {"ready", "cancelled"}
      [] current_status = "ready"      -> {"delivering", "completed", "cancelled"}
      [] current_status = "delivering" -> {"completed", "cancelled"}
      [] OTHER -> {}

\* C9: an update_status or confirm_order request by the owning vendor whose
\* target order_status is not listed for the order's current status is
\* answered with 400 and leaves order_status unchanged.
C9_UnlistedOrderTargetIs400 ==
    [][ (/\ resp'.op \in OrderStatusOps
         /\ resp'.obj \in OrderIds
         /\ OrderVisible(resp'.by, orders[resp'.obj])
         /\ user_type[resp'.by] = "vendor"
         /\ ServiceRow(orders[resp'.obj].service).vendor = resp'.by
         /\ resp'.arg \notin C9_Listed(orders[resp'.obj].order_status))
        => (/\ resp'.code = 400
            /\ orders'[resp'.obj].order_status = orders[resp'.obj].order_status)
      ]_vars

\* C9 witness: the owning vendor asked to move a cancelled order to a real
\* status and was answered with 400.
C9_Witness ==
    /\ resp.op = "update_status"
    /\ resp.code = 400
    /\ resp.arg \in OrderStatuses
    /\ resp.obj \in OrderIds
    /\ orders[resp.obj].order_status = "cancelled"
    /\ ServiceRow(orders[resp.obj].service).vendor = resp.by

OwnsPaymentBooking(u, pid) ==
    /\ pid \in PaymentIds
    /\ payments[pid].booking # 0
    /\ bookings[payments[pid].booking].student = u
    /\ user_type[u] = "student"

\* C5: a process request (payment_id and reference given) on a pending
\* payment by the student who owns the payment's booking leaves the payment
\* 'successful' and, if the booking was pending, the booking 'confirmed'.
C5_ProcessMarksSuccessful ==
    [][ (/\ resp'.op = "process"
         /\ resp'.arg = TRUE
         /\ OwnsPaymentBooking(resp'.by, resp'.obj)
         /\ payments[resp'.obj].status = "pending")
        => (/\ payments'[resp'.obj].status = "successful"
            /\ bookings[payments[resp'.obj].booking].booking_status = "pending"
                 => bookings'[payments[resp'.obj].booking].booking_status = "confirmed")
      ]_vars

\* C5 witness: a process request left its payment successful and the
\* payment's booking confirmed; bookings are only ever created pending or
\* completed here, so the booking was confirmed by that request.
C5_Witness ==
    /\ resp.op = "process"
    /\ resp.obj \in PaymentIds
    /\ payments[resp.obj].status = "successful"
    /\ payments[resp.obj].booking # 0
    /\ bookings[payments[resp.obj].booking].booking_status = "confirmed"
    /\ bookings[payments[resp.obj].booking].student = resp.by

\* The payment transition table as the claim states it.
C6_Table(current_status) ==
    CASE current_status = "pending" -> {"successful", "failed"}
      [] current_status = "failed"  -> {"pending"}
      [] OTHER -> {}

\* C6: a process or verify request changes the status of a stored payment
\* only along the payment transition table and stores or removes no payment;
\* a process request on an already successful payment never changes it and
\* never answers 200, and when it comes with payment_id and reference from
\* the student who owns the payment's booking it is answered with 400.
C6_PaymentStatusFollowsTable ==
    [][ resp'.op \in {"process", "verify"}
        => (/\ Len(payments') = Len(payments)
            /\ \A i \in PaymentIds :
                  payments'[i].status # payments[i].status
                     => payments'[i].status \in C6_Table(payments[i].status)
            /\ (/\ resp'.op = "process"
                /\ resp'.obj \in PaymentIds
                /\ payments[resp'.obj].status = "successful")
               => (/\ payments' = payments
                   /\ resp'.code # 200
                   /\ (resp'.arg = TRUE /\ OwnsPaymentBooking(resp'.by, resp'.obj))
                        => resp'.code = 400))
      ]_vars

\* C6 witness: the owning student asked to process an already successful
\* payment and was answered with 400.
C6_Witness ==
    /\ resp.op = "process"
    /\ resp.code = 400
    /\ resp.arg = TRUE
    /\ OwnsPaymentBooking(resp.by, resp.obj)
    /\ payments[resp.obj].status = "successful"

(***************************************************************************)
(* Properties of the review resource.                                      *)
(***************************************************************************)
C7_Unique(rows) ==
    \A i, j \in DOMAIN rows :
        i # j => ~ (rows[i].service = rows[j].service /\ rows[i].user = rows[j].user)

\* C7: after every add_review, update_review and review create or update
\* request there is at most one stored review per (service, user) pair, and
\* an add_review by a user who already has a review of the service is
\* refused (403) and leaves the stored reviews as they were.
C7_OneReviewPerPair ==
    [][ /\ C7_Unique(reviews')
        /\ (/\ resp'.op = "add_review"
            /\ ServiceVisible(resp'.by, resp'.arg)
            /\ \E i \in ReviewIds :
                  reviews[i].service = resp'.arg /\ reviews[i].user = resp'.by)
           => (resp'.code = 403 /\ reviews' = reviews)
      ]_vars

\* C7 witness: a student who has a stored review of a service asked to add
\* another one and was refused, while a second student's review is stored too.
C7_Witness ==
    /\ resp.op = "add_review"
    /\ resp.code = 403
    /\ user_type[resp.by] = "student"
    /\ Len(reviews) >= 2
    /\ \E i \in ReviewIds : reviews[i].service = resp.arg /\ reviews[i].user = resp.by

Abs(x) == IF x < 0 THEN 0 - x ELSE x

\* rt (in hundredths) is the average total / n rounded to two decimals.
C8_IsRounded(rt, total, n) == 2 * Abs(100 * total - rt * n) <= n

\* C8: whenever a request saves a review (add_review, update_review or a
\* review update that is answered with success or changes a row), the
\* reviewed service's rating afterwards is the average rating of its stored
\* reviews rounded to two decimals and its total_ratings is their number.
C8_RatingIsRoundedAverage ==
    [][ (/\ resp'.op \in {"add_review", "update_review", "review_update"}
         /\ (resp'.code \in {200, 201} \/ reviews' # reviews))
        => LET svc == resp'.arg
               ids == {i \in DOMAIN reviews' : reviews'[i].service = svc}
           IN  /\ ids # {}
               /\ total_ratings'[svc] = Cardinality(ids)
               /\ rating'[svc] # << >>
               /\ C8_IsRounded(rating'[svc][1], SumRatings(reviews', ids), Cardinality(ids))
      ]_vars

\* C8 witness: a review was saved and left its service with three reviews
\* whose average does not end at two decimals and was rounded up (x.67).
C8_Witness ==
    /\ resp.op \in {"add_review", "update_review", "review_update"}
    /\ resp.code \in {200, 201}
    /\ total_ratings[resp.arg] = 3
    /\ rating[resp.arg] # << >>
    /\ rating[resp.arg][1] % 100 = 67

(***************************************************************************)
(* Only students book, order and review.                                   *)
(***************************************************************************)
CreateOps == {"booking_create", "order_create", "add_review", "review_create"}

\* C10: a request to create a booking, an order or a review that comes from
\* a user whose user_type is not 'student' is refused (status 400 or above)
\* and stores no row; and no stored booking, order or review, however it was
\* entered, belongs to a user who is not a student.
C10_OnlyStudentsCreate ==
    [][ /\ (resp'.op \in CreateOps /\ user_type[resp'.by] # "student")
           => (/\ resp'.code >= 400
               /\ bookings' = bookings
               /\ orders' = orders
               /\ reviews' = reviews)
        /\ \A i \in DOMAIN bookings' : user_type[bookings'[i].student] = "student"
        /\ \A i \in DOMAIN orders' : user_type[orders'[i].customer] = "student"
        /\ \A i \in DOMAIN reviews' : user_type[reviews'[i].user] = "student"
      ]_vars

\* C10 witness: a vendor asked to create a booking for a free slot of an
\* available service and was refused, while a student's booking is stored.
C10_Witness ==
    /\ resp.op = "booking_create"
    /\ user_type[resp.by] = "vendor"
    /\ resp.code = 500
    /\ Len(bookings) = 1

(***************************************************************************)
(* Who may change a booking's status.                                      *)
(***************************************************************************)
\* The requesters the claim lets through.
C11_MayChange(op, u, b) ==
    IF op = "cancel"
    THEN \/ b.student = u
         \/ (user_type[u] = "vendor" /\ ServiceRow(b.service).vendor = u)
         \/ user_type[u] = "admin"
    ELSE user_type[u] = "vendor" /\ ServiceRow(b.service).vendor = u

\* C11 (as claimed): a confirm or complete request changes a booking only
\* when it comes from the vendor who owns the booking's service, a cancel
\* request only when it comes from the booking's student, that vendor or an
\* admin; every other requester is answered with 403 and the booking is left
\* unchanged.
C11_OthersGet403 ==
    [][ /\ (resp'.op \in StatusOps /\ bookings' # bookings)
           => (resp'.obj \in BookingIds
               /\ C11_MayChange(resp'.op, resp'.by, bookings[resp'.obj]))
        /\ (/\ resp'.op \in StatusOps
            /\ resp'.obj \in BookingIds
            /\ ~ C11_MayChange(resp'.op, resp'.by, bookings[resp'.obj]))
           => (resp'.code = 403 /\ bookings' = bookings)
      ]_vars

(***************************************************************************)
(* Authentication: refresh tokens.  A refresh token is a signed string; a  *)
(* request presents <<t>> (t = 0 or an id never signed: a string that does *)
(* not verify) or << >> (no "refresh" key).  Two routed endpoints accept a *)
(* refresh token: /api/users/auth/refresh/ (refresh_token_view) and the    *)
(* token library's own view at /api/token/refresh/.                        *)
(***************************************************************************)
MaxTokens == 3

TokenIds == 1..Len(refresh_tokens)

\* RefreshToken(token): signature, expiry and, where the library's blacklist
\* application is installed, its own blacklist.
TokenVerifies(t) ==
    /\ t \in TokenIds
    /\ ~ refresh_tokens[t].expired
    /\ t \notin outstanding_blacklist

UnchangedOthersA == UNCHANGED <<coreVars, wsVars, notifVars, order_items, applications, procVars>>

\* POST /api/users/login/: valid credentials sign a fresh refresh token.
login_user(u, credentials_ok) ==
    /\ u \notin deleted_users
    /\ UnchangedOthersA
    /\ UNCHANGED <<blacklisted_tokens, outstanding_blacklist, used_refresh, deleted_users>>
    /\ IF ~ credentials_ok
       THEN /\ resp' = ResponseArg("login", u, 0, 0, 400)
            /\ UNCHANGED <<refresh_tokens, access_tokens>>
       ELSE /\ Len(refresh_tokens) < MaxTokens
            /\ Len(access_tokens) < MaxTokens
            /\ refresh_tokens' = Append(refresh_tokens, [user |-> u, expired |-> FALSE])
            /\ access_tokens' = Append(access_tokens, [user |-> u, expired |-> FALSE])
            /\ resp' = ResponseArg("login", u, Len(refresh_tokens) + 1, 2, 200)

\* The answer's arg is the number of tokens it carries.
RefreshRefuse(op, data, code) ==
    /\ resp' = ResponseArg(op, None, IF data = << >> THEN 0 ELSE data[1], 0, code)
    /\ UNCHANGED authVars

\* POST /api/users/auth/refresh/.
refresh_token_view(data) ==
    /\ UnchangedOthersA
    /\ IF data = << >>
       THEN RefreshRefuse("refresh_token", data, 400)
       ELSE IF data[1] \in blacklisted_tokens
       THEN RefreshRefuse("refresh_token", data, 401)
       ELSE IF ~ TokenVerifies(data[1])
       THEN RefreshRefuse("refresh_token", data, 401)
       ELSE IF refresh_tokens[data[1]].user \in deleted_users
       THEN RefreshRefuse("refresh_token", data, 401)
       ELSE /\ Len(refresh_tokens) < MaxTokens
            /\ Len(access_tokens) < MaxTokens
            /\ refresh_tokens' =
                  Append(refresh_tokens,
                         [user |-> refresh_tokens[data[1]].user, expired |-> FALSE])
            /\ access_tokens' =
                  Append(access_tokens,
                         [user |-> refresh_tokens[data[1]].user, expired |-> FALSE])
            /\ blacklisted_tokens' = blacklisted_tokens \cup {data[1]}
            /\ used_refresh' = used_refresh \cup {data[1]}
            /\ resp' = ResponseArg("refresh_token", None, data[1], 2, 200)
            /\ UNCHANGED <<outstanding_blacklist, deleted_users>>

\* POST /api/token/refresh/: the library's TokenRefreshView.  It reads only
\* the library's own blacklist.  Whether it rotates the refresh token and
\* blacklists the old one is a project setting: both are inputs here.  What it
\* answers for a token of a deleted user depends on the library's version.
TokenRefreshView(data, rotate, blacklist, code_deleted) ==
    /\ UnchangedOthersA
    /\ IF data = << >>
       THEN RefreshRefuse("token_refresh", data, 400)
       ELSE IF ~ TokenVerifies(data[1])
       THEN RefreshRefuse("token_refresh", data, 401)
       ELSE IF refresh_tokens[data[1]].user \in deleted_users /\ code_deleted = 401
       THEN RefreshRefuse("token_refresh", data, 401)
       ELSE IF ~ rotate
       THEN /\ Len(access_tokens) < MaxTokens
            /\ access_tokens' =
                  Append(access_tokens,
                         [user |-> refresh_tokens[data[1]].user, expired |-> FALSE])
            /\ resp' = ResponseArg("token_refresh", None, data[1], 1, 200)
            /\ UNCHANGED <<refresh_tokens, blacklisted_tokens, outstanding_blacklist,
                           used_refresh, deleted_users>>
       ELSE /\ Len(refresh_tokens) < MaxTokens
            /\ Len(access_tokens) < MaxTokens
            /\ access_tokens' =
                  Append(access_tokens,
                         [user |-> refresh_tokens[data[1]].user, expired |-> FALSE])
            /\ refresh_tokens' =
                  Append(refresh_tokens,
                         [user |-> refresh_tokens[data[1]].user, expired |-> FALSE])
            /\ outstanding_blacklist' =
                  IF blacklist THEN outstanding_blacklist \cup {data[1]}
                  ELSE outstanding_blacklist
            /\ resp' = ResponseArg("token_refresh", None, data[1], 2, 200)
            /\ UNCHANGED <<blacklisted_tokens, used_refresh, deleted_users>>

\* The refresh lifetime of a token runs out.
TokenExpires(t) ==
    /\ t \in TokenIds
    /\ ~ refresh_tokens[t].expired
    /\ refresh_tokens' = [refresh_tokens EXCEPT ![t].expired = TRUE]
    /\ resp' = Response("expire", None, t, 0)
    /\ UnchangedOthersA
    /\ UNCHANGED <<access_tokens, blacklisted_tokens, outstanding_blacklist, used_refresh,
                   deleted_users>>

\* Rows that protect a user from deletion (on_delete=PROTECT).
UserProtected(u) ==
    \/ \E i \in BookingIds : bookings[i].student = u
    \/ \E i \in OrderIds : orders[i].customer = u

\* DELETE /api/users/delete/: the requester's own row, with the rows that
\* cascade from it.  A protected row makes the deletion fail unhandled.
delete_user(u) ==
    /\ u \notin deleted_users
    /\ UNCHANGED <<user_type, now, bookings, payments, orders, rating, total_ratings>>
    /\ UNCHANGED <<refresh_tokens, access_tokens, outstanding_blacklist, used_refresh>>
    /\ UNCHANGED <<wsVars, pushed, channel_fault, clock, order_items, procVars>>
    /\ IF UserProtected(u)
       THEN /\ resp' = Response("delete_user", u, 0, 500)
            /\ UNCHANGED <<reviews, blacklisted_tokens, deleted_users, notifications, preferences,
                           applications>>
       ELSE /\ deleted_users' = deleted_users \cup {u}
            /\ blacklisted_tokens' =
                  {t \in blacklisted_tokens : refresh_tokens[t].user # u}
            /\ reviews' = SelectSeq(reviews, LAMBDA r : r.user # u)
            /\ notifications' = SelectSeq(notifications, LAMBDA n : n.recipient # u)
            /\ preferences' = [preferences EXCEPT ![u] = << >>]
            /\ applications' =
                  LET kept == SelectSeq(applications, LAMBDA app : app.applicant # u) IN
                  [i \in DOMAIN kept |->
                      IF kept[i].reviewed_by = u
                      THEN [kept[i] EXCEPT !.reviewed_by = None] ELSE kept[i]]
            /\ resp' = Response("delete_user", u, 0, 200)

AuthClients == {"s1", "s2"}

RefreshInputs == { << >> } \cup { <<t>> : t \in 0..MaxTokens }

NextAuth ==
    \/ \E u \in AuthClients, ok \in BOOLEAN : login_user(u, ok)
    \/ \E data \in RefreshInputs : refresh_token_view(data)
    \/ \E data \in RefreshInputs, rotate \in BOOLEAN, blacklist \in BOOLEAN,
          code_deleted \in {200, 401} :
          TokenRefreshView(data, rotate, blacklist, code_deleted)
    \/ \E t \in 1..MaxTokens : TokenExpires(t)
    \/ \E u \in AuthClients : delete_user(u)

SpecAuth == Init /\ [][NextAuth]_vars

RefreshOps == {"refresh_token", "token_refresh"}

\* C12 (as claimed): once refresh_token_view has accepted a refresh token,
\* every later refresh request that presents the same token is answered 401
\* and signs no token.
C12_UsedTokenIs401 ==
    [][ (resp'.op \in RefreshOps /\ resp'.obj \in used_refresh)
           => (/\ resp'.code = 401
               /\ resp'.arg = 0
               /\ refresh_tokens' = refresh_tokens)
      ]_vars

(***************************************************************************)
(* WebSocket consumers.  The scope of a connection carries a query string  *)
(* and an Authorization header; each holds no token (<< >>) or a token     *)
(* <<kind, t>>: kind is the token type, t the id of a signed token (0 or   *)
(* an id never signed is a string that does not verify).                   *)
(***************************************************************************)
MaxConnections == 2

ChannelIds == 1..Len(connections)

AnonymousUser == << >>

\* token = query_string.split('token=')[-1].split('&')[0], falling back to
\* the Bearer header when that is empty.
ScopeToken(scope) == IF scope.query # << >> THEN scope.query ELSE scope.header

\* AccessToken(token): token type, signature and expiry.
AccessTokenVerifies(token) ==
    /\ token[1] = "access"
    /\ token[2] \in 1..Len(access_tokens)
    /\ ~ access_tokens[token[2]].expired

get_user_from_token_AnyUser(scope) ==
    LET token == ScopeToken(scope) IN
    IF token = << >> THEN AnonymousUser
    ELSE IF ~ AccessTokenVerifies(token) THEN AnonymousUser
    ELSE <<access_tokens[token[2]].user>>

\* get_user_from_token of both consumers: <<user>>, or AnonymousUser when
\* there is no token, the token does not verify or the user row is gone.
get_user_from_token(scope) ==
    LET token == ScopeToken(scope) IN
    IF token = << >> THEN AnonymousUser
    ELSE IF ~ AccessTokenVerifies(token) THEN AnonymousUser
    ELSE IF access_tokens[token[2]].user \in deleted_users THEN AnonymousUser
    ELSE <<access_tokens[token[2]].user>>

UnchangedOthersW == UNCHANGED <<coreVars, authVars, notifVars, order_items, applications, procVars>>

WsClose(op, consumer, scope) ==
    /\ connections' = Append(connections,
          [consumer |-> consumer, user |-> AnonymousUser, accepted |-> FALSE,
           state |-> "closed"])
    /\ UNCHANGED groups
    /\ resp' = ResponseArg(op, None, Len(connections) + 1, scope, 4001)

\* NotificationConsumer.connect.
NotificationConsumer_connect(scope) ==
    /\ Len(connections) < MaxConnections
    /\ UnchangedOthersW
    /\ LET user == get_user_from_token(scope)
           c == Len(connections) + 1 IN
       IF user # AnonymousUser
       THEN /\ groups' = groups \cup {[group |-> GroupName("user", user[1]), channel |-> c]}
            /\ connections' = Append(connections,
                  [consumer |-> "notifications", user |-> user, accepted |-> TRUE,
                   state |-> "open"])
            /\ resp' = ResponseArg("ws_notifications", None, c, scope, 101)
       ELSE WsClose("ws_notifications", "notifications", scope)

\* VendorNotificationConsumer.connect.  After joining both groups and
\* accepting, the confirmation reads self.user.vendorprofile; the relation's
\* name is vendor_profile, so the read raises AttributeError and the consumer
\* ends without running disconnect: the channel stays in its groups.
VendorNotificationConsumer_connect(scope) ==
    /\ Len(connections) < MaxConnections
    /\ UnchangedOthersW
    /\ LET user == get_user_from_token(scope)
           c == Len(connections) + 1 IN
       IF user # AnonymousUser /\ user_type[user[1]] = "vendor"
       THEN /\ groups' = groups \cup
                  { [group |-> GroupName("vendor", user[1]), channel |-> c],
                    [group |-> GroupName("vendor_notifications", None), channel |-> c] }
            /\ connections' = Append(connections,
                  [consumer |-> "vendor-notifications", user |-> user, accepted |-> TRUE,
                   state |-> "error"])
            /\ resp' = ResponseArg("ws_vendor_notifications", None, c, scope, 1011)
       ELSE WsClose("ws_vendor_notifications", "vendor-notifications", scope)

\* disconnect of either consumer: the channel leaves the groups it joined.
disconnect(c) ==
    /\ c \in ChannelIds
    /\ connections[c].state = "open"
    /\ UnchangedOthersW
    /\ connections' = [connections EXCEPT ![c].state = "closed"]
    /\ groups' =
          IF connections[c].consumer = "notifications"
          THEN groups \ {[group |-> GroupName("user", connections[c].user[1]), channel |-> c]}
          ELSE groups \
               { [group |-> GroupName("vendor", connections[c].user[1]), channel |-> c],
                 [group |-> GroupName("vendor_notifications", None), channel |-> c] }
    /\ resp' = Response("ws_disconnect", None, c, 1000)

\* The lifetime of an access token runs out.
AccessTokenExpires(t) ==
    /\ t \in 1..Len(access_tokens)
    /\ ~ access_tokens[t].expired
    /\ access_tokens' = [access_tokens EXCEPT ![t].expired = TRUE]
    /\ resp' = Response("expire_access", None, t, 0)
    /\ UNCHANGED <<coreVars, wsVars, notifVars, order_items, applications, procVars>>
    /\ UNCHANGED <<refresh_tokens, blacklisted_tokens, outstanding_blacklist, used_refresh,
                   deleted_users>>

WsClients == {"s1", "v1"}

WsScopes ==
    { [query |-> q, header |-> h] :
         q \in { << >>, <<"access", 0>>, <<"access", 1>>, <<"access", 2>>, <<"refresh", 1>> },
         h \in { << >>, <<"access", 1>> } }

NextWs ==
    \/ \E u \in WsClients : login_user(u, TRUE)
    \/ \E scope \in WsScopes : NotificationConsumer_connect(scope)
    \/ \E scope \in WsScopes : VendorNotificationConsumer_connect(scope)
    \/ \E c \in 1..MaxConnections : disconnect(c)
    \/ \E t \in 1..MaxTokens : AccessTokenExpires(t)
    \/ delete_user("s1")

SpecWs == Init /\ [][NextWs]_vars

WsOps == {"ws_notifications", "ws_vendor_notifications"}

\* The user a scope's token stands for, as the claim reads it: the token
\* presented is an unexpired access token of a user that still exists.
C13_User(scope) ==
    LET token == IF scope.query # << >> THEN scope.query ELSE scope.header IN
    IF /\ token # << >>
       /\ token[1] = "access"
       /\ token[2] \in 1..Len(access_tokens)
       /\ ~ access_tokens[token[2]].expired
       /\ access_tokens[token[2]].user \notin deleted_users
    THEN <<access_tokens[token[2]].user>>
    ELSE << >>

\* C13: a connection to ws/notifications/ is accepted and joined to a group
\* only when its token resolves to an existing user, and then only to the
\* group user_<id> of that user; ws/vendor-notifications/ needs that user to
\* be a vendor as well; every other connection is closed and joins no group,
\* and no connection changes the groups of another channel.
C13_JoinsOwnGroupOnly ==
    [][ resp'.op \in WsOps =>
          LET c == resp'.obj
              user == C13_User(resp'.arg)
              joined == {g.group : g \in {x \in groups' : x.channel = c}}
              ok == /\ user # << >>
                    /\ (resp'.op = "ws_vendor_notifications"
                           => user_type[user[1]] = "vendor")
          IN /\ {x \in groups' : x.channel # c} = groups
             /\ IF ok
                THEN /\ connections'[c].accepted
                     /\ resp'.op = "ws_notifications"
                           => joined = {GroupName("user", user[1])}
                     /\ resp'.op = "ws_vendor_notifications"
                           => /\ joined # {}
                              /\ joined \subseteq {GroupName("vendor", user[1]),
                                                   GroupName("vendor_notifications", None)}
                ELSE /\ ~ connections'[c].accepted
                     /\ connections'[c].state = "closed"
                     /\ resp'.code = 4001
                     /\ joined = {}
      ]_vars

\* A connection of a user whose row is gone was closed while another
\* channel sits in its user's own group.
C13_Witness ==
    /\ resp.op = "ws_notifications"
    /\ resp.code = 4001
    /\ resp.arg.query # << >>
    /\ resp.arg.query[1] = "access"
    /\ resp.arg.query[2] \in 1..Len(access_tokens)
    /\ access_tokens[resp.arg.query[2]].user \in deleted_users
    /\ \E g \in groups : g.group.kind = "user"

(***************************************************************************)
(* Notification delivery: direct calls of the service, the preference      *)
(* endpoint, and the environment (channel layer faults, time of day).      *)
(***************************************************************************)
MaxNotifications == 2

UnchangedOthersN == UNCHANGED <<coreVars, authVars, wsVars, order_items, applications, procVars>>

\* notification_service.send_notification(recipient, ..., notification_type).
NotificationService_send_notification(recipient, notification_type) ==
    /\ Len(notifications) < MaxNotifications
    /\ UnchangedOthersN
    /\ UNCHANGED <<channel_fault, clock>>
    /\ LET ns == send_notification(NotificationState, recipient, notification_type, 0) IN
          /\ notifications' = ns.rows
          /\ preferences' = ns.prefs
          /\ pushed' = ns.sent
          /\ resp' = ResponseArg("send_notification", None, ns.ret,
                                 [recipient |-> recipient, type |-> notification_type], 0)

NotificationPreferenceFields ==
    PreferenceFlags \cup {"quiet_hours_start", "quiet_hours_end"}

\* NotificationPreferenceViewSet.update: get-or-create the requester's row,
\* then a partial update of the serializer's fields.
NotificationPreference_update(u, data) ==
    /\ UnchangedOthersN
    /\ UNCHANGED <<notifications, pushed, channel_fault, clock>>
    /\ LET row == IF preferences[u] = << >> THEN DefaultPreference ELSE preferences[u][1] IN
          preferences' =
             [preferences EXCEPT
                ![u] = <<ApplyUpdate(row, ValidatedData(data, NotificationPreferenceFields))>>]
    /\ resp' = Response("preferences_update", u, 0, 200)

\* The channel layer starts or stops failing at one of its calls.
ChannelFault(f) ==
    /\ channel_fault # f
    /\ channel_fault' = f
    /\ resp' = Response("channel_fault", None, 0, 0)
    /\ UnchangedOthersN
    /\ UNCHANGED <<notifications, preferences, pushed, clock>>

\* An hour passes.
ClockTick ==
    /\ clock' = (clock + 1) % (MaxClock + 1)
    /\ resp' = Response("clock", None, 0, 0)
    /\ UnchangedOthersN
    /\ UNCHANGED <<notifications, preferences, pushed, channel_fault>>

NotifRecipients == {"v1"}

NotifTypes == {"booking_created", "order_created"}

PreferenceInputs ==
    { [booking_notifications |-> FALSE],
      [booking_notifications |-> TRUE, order_notifications |-> FALSE],
      [quiet_hours_start |-> <<2>>, quiet_hours_end |-> <<0>>],
      [quiet_hours_start |-> << >>, quiet_hours_end |-> << >>, is_sent |-> TRUE] }

ChannelFaults == {"none", "group_send", "vendor_send", "count_send"}

NextNotif ==
    \/ \E u \in NotifRecipients, t \in NotifTypes : NotificationService_send_notification(u, t)
    \/ \E date \in Dates : BookingCreate("s1", "svcA", date, "pending")
    \/ \E data \in PreferenceInputs : NotificationPreference_update("v1", data)
    \/ \E f \in ChannelFaults : ChannelFault(f)
    \/ ClockTick

SpecNotif == Init /\ [][NextNotif]_vars

SendOps == {"send_notification", "booking_create"}

NewNotifications == (DOMAIN notifications') \ (DOMAIN notifications)

\* C14: a send stores its row before the push is attempted and a failing
\* push neither removes the row nor makes send_notification fail: every row
\* stored before stays as it was, every message pushed names a stored row, a
\* new row is marked sent only if the message for it reached the recipient's
\* group, and with the push to that group failing the call still returns the
\* stored row, with is_sent false.
C14_RowSurvivesPushFailure ==
    [][ resp'.op \in SendOps =>
          /\ \A i \in DOMAIN notifications :
                i \in DOMAIN notifications' /\ notifications'[i] = notifications[i]
          /\ \A m \in pushed' : m.notification \in DOMAIN notifications'
          /\ \A i \in NewNotifications :
                notifications'[i].is_sent =>
                   [group |-> GroupName("user", notifications'[i].recipient),
                    type |-> "notification_message", notification |-> i] \in pushed'
          /\ channel_fault = "group_send" =>
                /\ pushed' = pushed
                /\ \A i \in NewNotifications : ~ notifications'[i].is_sent
                /\ (resp'.op = "send_notification" /\ NewNotifications # {})
                      => resp'.obj \in NewNotifications
      ]_vars

\* The push failed: the call returned the stored row, unsent, next to a row
\* sent earlier.
C14_Witness ==
    /\ resp.op = "send_notification"
    /\ channel_fault = "group_send"
    /\ resp.obj \in DOMAIN notifications
    /\ ~ notifications[resp.obj].is_sent
    /\ \E j \in DOMAIN notifications : notifications[j].is_sent

\* The preference flag of a notification type's category, for the categories
\* the claim lists.
C15_Flag(notification_type) ==
    IF notification_type \in {"booking_created", "booking_cancelled", "booking_confirmed",
                              "booking_completed"} THEN "booking_notifications"
    ELSE IF notification_type \in {"order_created", "order_cancelled", "order_confirmed"}
    THEN "order_notifications"
    ELSE IF notification_type = "payment_received" THEN "payment_notifications"
    ELSE IF notification_type = "review_received" THEN "review_notifications"
    ELSE IF notification_type = "system_announcement" THEN "system_notifications"
    ELSE "none"

C15_Disabled(u, notification_type) ==
    /\ preferences[u] # << >>
    /\ C15_Flag(notification_type) # "none"
    /\ ~ preferences[u][1][C15_Flag(notification_type)]

\* C15: when the recipient's preferences have the category of the
\* notification's type disabled, send_notification stores no row for that
\* recipient and pushes nothing to any group.
C15_DisabledCategoryStoresNothing ==
    [][ /\ (resp'.op = "send_notification"
            /\ C15_Disabled(resp'.arg.recipient, resp'.arg.type))
           => (/\ notifications' = notifications
               /\ pushed' = pushed
               /\ resp'.obj = 0)
        /\ resp'.op \in SendOps =>
              \A i \in NewNotifications :
                 /\ ~ C15_Disabled(notifications'[i].recipient,
                                   notifications'[i].notification_type)
                 /\ \A m \in pushed' \ pushed : m.notification \in NewNotifications
      ]_vars

\* An order notification was refused for a recipient who still takes
\* booking notifications.
C15_Witness ==
    /\ resp.op = "send_notification"
    /\ resp.obj = 0
    /\ resp.arg.type = "order_created"
    /\ preferences[resp.arg.recipient] # << >>
    /\ ~ preferences[resp.arg.recipient][1].order_notifications
    /\ preferences[resp.arg.recipient][1].booking_notifications
    /\ notifications # << >>

\* The time of day lies inside the quiet-hours range of a preference row; a
\* range whose start is later than its end crosses midnight.
C16_InQuietHours(pref, t) ==
    /\ pref.quiet_hours_start # << >>
    /\ pref.quiet_hours_end # << >>
    /\ IF pref.quiet_hours_start[1] <= pref.quiet_hours_end[1]
       THEN pref.quiet_hours_start[1] <= t /\ t <= pref.quiet_hours_end[1]
       ELSE t >= pref.quiet_hours_start[1] \/ t <= pref.quiet_hours_end[1]

\* C16 (as claimed): nothing is pushed to a user's groups and no notification
\* of the user is marked sent while the time of day lies inside the user's
\* quiet-hours range.
C16_NothingDeliveredInQuietHours ==
    [][ resp'.op \in SendOps =>
          \A u \in Users :
             (preferences[u] # << >> /\ C16_InQuietHours(preferences[u][1], clock))
                => /\ \A m \in pushed' \ pushed : m.group.id # u
                   /\ \A i \in NewNotifications :
                         notifications'[i].recipient = u => ~ notifications'[i].is_sent
      ]_vars

(***************************************************************************)
(* Order items.  Items are entered on the admin site (OrderItemAdmin); the *)
(* inline of OrderAdmin is read-only.  Prices are whole amounts.           *)
(***************************************************************************)
MaxItems == 2

\* ServiceItem.price of the one item offered by the ordering service.
ServiceItemPrice == 2

OrderItemIds == DOMAIN order_items

UnchangedOthersI ==
    UNCHANGED <<user_type, now, bookings, payments, reviews, rating, total_ratings,
                authVars, wsVars, notifVars, applications, procVars>>

\* OrderItem.save: a unit price that is not set is taken from the service
\* item; total_price is unit_price * quantity.  The order is not touched.
OrderItemSave(order, unit_price, quantity) ==
    LET price == IF unit_price = 0 THEN ServiceItemPrice ELSE unit_price IN
    [order |-> order, unit_price |-> price, quantity |-> quantity,
     total_price |-> price * quantity]

\* Admin site, add order item (OrderItemAdmin + OrderItem.save).
OrderItemAdminAdd(a, order, unit_price, quantity) ==
    /\ user_type[a] = "admin"
    /\ order \in OrderIds
    /\ Len(order_items) < MaxItems
    /\ order_items' = Append(order_items, OrderItemSave(order, unit_price, quantity))
    /\ resp' = Response("order_item_admin_add", a, Len(order_items) + 1, 302)
    /\ UNCHANGED orders
    /\ UnchangedOthersI

\* Admin site, change order item.
OrderItemAdminChange(a, id, unit_price, quantity) ==
    /\ user_type[a] = "admin"
    /\ id \in OrderItemIds
    /\ order_items' =
          [order_items EXCEPT ![id] = OrderItemSave(order_items[id].order, unit_price, quantity)]
    /\ resp' = Response("order_item_admin_change", a, id, 302)
    /\ UNCHANGED orders
    /\ UnchangedOthersI

\* Admin site, change order (OrderAdmin + Order.save): service, customer and
\* status come from the form, the total is read-only.
OrderAdminChange(a, id, st) ==
    /\ user_type[a] = "admin"
    /\ id \in OrderIds
    /\ UnchangedOthersO
    /\ LET new == [orders[id] EXCEPT !.order_status = st] IN
       IF ~ OrderClean(new)
       THEN /\ resp' = Response("order_admin_change", a, id, 200)
            /\ UNCHANGED orders
       ELSE /\ orders' = [orders EXCEPT ![id] = OrderSave(new, id)]
            /\ resp' = Response("order_admin_change", a, id, 302)

NextItems ==
    \/ \E a \in Admins : OrderAdminAdd(a, "svcB", "s1", "pending")
    \/ \E a \in Admins, o \in 1..MaxOrders, p \in {0, 1}, q \in {1, 2} :
          OrderItemAdminAdd(a, o, p, q)
    \/ \E a \in Admins, i \in 1..MaxItems, p \in {0, 1}, q \in {1, 2} :
          OrderItemAdminChange(a, i, p, q)
    \/ \E a \in Admins, o \in 1..MaxOrders, st \in {"pending", "confirmed"} :
          OrderAdminChange(a, o, st)
    \/ \E o \in OrderIds : confirm_order("v2", o)

SpecItems == Init /\ [][NextItems]_vars

RECURSIVE C17_Sum(_, _)
C17_Sum(items, order) ==
    IF items = << >> THEN 0
    ELSE (IF Head(items).order = order
          THEN Head(items).unit_price * Head(items).quantity ELSE 0)
         + C17_Sum(Tail(items), order)

HasSuccessfulPayment(booking_id) ==
    \E i \in PaymentIds :
        payments[i].booking = booking_id /\ payments[i].status = "successful"

\* POST /api/payments/create/.  The amount is read from booking.service.price,
\* an attribute the Service model does not have; past that, the serializer
\* is handed the Booking instance where it takes a primary key.
create_payment(u, booking_id, payment_method) ==
    /\ UnchangedOthersP
    /\ UNCHANGED <<bookings, payments>>
    /\ resp' = ResponseArg("create_payment", u, booking_id, payment_method,
          IF booking_id = 0 \/ payment_method = None THEN 400
          ELSE IF booking_id \notin BookingIds THEN 500
          ELSE IF bookings[booking_id].student # u THEN 403
          ELSE IF HasSuccessfulPayment(booking_id) THEN 400
          ELSE IF "price" \notin ServiceModelAttrs THEN 500
          ELSE 400)

NextCreatePayment ==
    \/ \E u \in {"s1", "s2"}, date \in Dates : BookingCreate(u, "svcA", date, "pending")
    \/ \E a \in Admins, bk \in 1..MaxBookings, st \in {"pending", "successful"} :
          PaymentAdminAdd(a, bk, 0, 1, "cash", None, None, "ref1", st)
    \/ \E u \in PaymentClients, booking_id \in 0..(MaxBookings + 1),
          payment_method \in {None, "cash", "momo"} :
          create_payment(u, booking_id, payment_method)

SpecCreatePayment == Init /\ [][NextCreatePayment]_vars

\* C18 (as claimed): a create_payment request that names a booking and a
\* payment method stores a new pending payment for the booking and is
\* answered 201 when the requester is the booking's student and the booking
\* has no successful payment; from anyone else it is answered 403 and stores
\* nothing.
C18_OwnerCreatesPendingPayment ==
    [][ (/\ resp'.op = "create_payment"
         /\ resp'.obj \in BookingIds
         /\ resp'.arg # None)
           => IF bookings[resp'.obj].student = resp'.by
              THEN ~ HasSuccessfulPayment(resp'.obj)
                      => /\ resp'.code = 201
                         /\ Len(payments') = Len(payments) + 1
                         /\ payments'[Len(payments')].booking = resp'.obj
                         /\ payments'[Len(payments')].status = "pending"
              ELSE resp'.code = 403 /\ payments' = payments
      ]_vars

(***************************************************************************)
(* Booking creation by requests that name a student other than the         *)
(* requester, with dates on both sides of the current time.                *)
(***************************************************************************)
BookingCreateInputs ==
    { [service |-> svc, booking_date |-> date, booking_status |-> "pending", student |-> x] :
         svc \in {"svcA", "svcC"}, date \in 0..(MaxDate + 1), x \in {"s2", "v1"} }

NextBookingCreate ==
    \/ \E u \in CreateClients, data \in BookingCreateInputs : BookingCreateData(u, data)
    \/ Tick

SpecBookingCreate == Init /\ [][NextBookingCreate]_vars

\* C19: a booking create stores the requester as the booking's student
\* whatever student the request names, and a booking_date that is not
\* strictly later than the current time is rejected with nothing stored.
C19_StudentIsRequesterDateIsFuture ==
    [][ resp'.op = "booking_create" =>
          /\ bookings' # bookings =>
                /\ bookings' = Append(bookings, bookings'[Len(bookings')])
                /\ bookings'[Len(bookings')].student = resp'.by
                /\ bookings'[Len(bookings')].booking_date = resp'.arg.booking_date
          /\ resp'.arg.booking_date <= now =>
                /\ bookings' = bookings
                /\ resp'.code = 400
      ]_vars

\* Every request names another student: a booking of s1 is stored all the
\* same, under s1, and a request of s1 dated at the current time was refused.
C19_Witness ==
    /\ resp.op = "booking_create"
    /\ resp.by = "s1"
    /\ resp.code = 400
    /\ resp.arg.student # "s1"
    /\ resp.arg.booking_date = now
    /\ bookings # << >>
    /\ \A i \in BookingIds : bookings[i].student = "s1"

(***************************************************************************)
(* Vendor applications.  A row is [applicant, status, reviewed_by];        *)
(* reviewed_by is None until a review is stored.                           *)
(***************************************************************************)
MaxApplications == 2

ApplicationStatuses == {"pending", "approved", "rejected"}

ApplicationIds == DOMAIN applications

UnchangedOthersV ==
    UNCHANGED <<now, bookings, payments, orders, reviews, rating, total_ratings,
                authVars, wsVars, notifVars, order_items, procVars>>

\* VendorApplication.clean, run by VendorApplication.save, with the user
\* types as they stand when it runs.
ApplicationClean(app, types) ==
    /\ types[app.applicant] = "student"
    /\ app.reviewed_by # None => types[app.reviewed_by] = "admin"

\* POST /api/users/vendor-applications/submit/
submit_vendor_application(u, valid) ==
    /\ UnchangedOthersV
    /\ UNCHANGED user_type
    /\ IF user_type[u] # "student"
       THEN /\ resp' = Response("application_submit", u, 0, 403)
            /\ UNCHANGED applications
       ELSE IF ~ valid
       THEN /\ resp' = Response("application_submit", u, 0, 400)
            /\ UNCHANGED applications
       ELSE IF \E i \in ApplicationIds :
                  applications[i].applicant = u /\ applications[i].status = "pending"
       THEN /\ resp' = Response("application_submit", u, 0, 400)
            /\ UNCHANGED applications
       ELSE /\ Len(applications) < MaxApplications
            /\ applications' = Append(applications,
                  [applicant |-> u, status |-> "pending", reviewed_by |-> None])
            /\ resp' = Response("application_submit", u, Len(applications) + 1, 201)

\* The fields of VendorApplicationUpdateSerializer a request can write.
VendorApplicationUpdateFields == {"status", "notes", "reviewed_at", "reviewed_by"}

\* VendorApplicationUpdateSerializer.validate (with the choice check of the
\* status field).
VendorApplicationUpdateIsValid(u, instance, vd) ==
    /\ "status" \in DOMAIN vd => vd.status \in ApplicationStatuses
    /\ user_type[u] = "admin"
    /\ "status" \in DOMAIN vd =>
          ~ (instance.status # "pending" /\ vd.status \in {"approved", "rejected"})

\* serializer.save(reviewed_by=request.user, ...) of an update that passed
\* validation: ModelSerializer.update, then VendorApplication.save.
ApplicationUpdateSave(op, u, id, vd, arg) ==
    LET new == [ApplyUpdate(applications[id], ValidatedData(vd, {"status"}))
                  EXCEPT !.reviewed_by = u]
    IN  IF ~ ApplicationClean(new, user_type)
        THEN /\ resp' = ResponseArg(op, u, id, arg, 500)
             /\ UNCHANGED applications
        ELSE /\ applications' = [applications EXCEPT ![id] = new]
             /\ resp' = ResponseArg(op, u, id, arg, 200)

\* Body shared by approve_vendor_application and reject_vendor_application.
ApplicationDecision(op, u, id, target) ==
    /\ UnchangedOthersV
    /\ UNCHANGED user_type
    /\ IF user_type[u] # "admin"
       THEN /\ resp' = ResponseArg(op, u, id, target, 403)
            /\ UNCHANGED applications
       ELSE IF id \notin ApplicationIds
       THEN /\ resp' = ResponseArg(op, u, id, target, 404)
            /\ UNCHANGED applications
       ELSE IF ~ VendorApplicationUpdateIsValid(u, applications[id], [status |-> target])
       THEN /\ resp' = ResponseArg(op, u, id, target, 400)
            /\ UNCHANGED applications
       ELSE ApplicationUpdateSave(op, u, id, [status |-> target], target)

\* POST /api/users/vendor-applications/{id}/approve/
approve_vendor_application(u, id) ==
    ApplicationDecision("application_approve", u, id, "approved")

\* POST /api/users/vendor-applications/{id}/reject/
reject_vendor_application(u, id) ==
    ApplicationDecision("application_reject", u, id, "rejected")

\* VendorApplicationViewSet.get_queryset
ApplicationVisible(u, app) ==
    CASE user_type[u] = "admin"   -> TRUE
      [] user_type[u] = "student" -> app.applicant = u
      [] OTHER -> FALSE

\* PUT/PATCH /api/users/vendor-applications/{id}/ with {status: target}.
VendorApplicationViewSet_update(u, id, target) ==
    /\ UnchangedOthersV
    /\ UNCHANGED user_type
    /\ IF id \notin ApplicationIds \/ ~ ApplicationVisible(u, applications[id])
       THEN /\ resp' = ResponseArg("application_update", u, id, target, 404)
            /\ UNCHANGED applications
       ELSE IF ~ VendorApplicationUpdateIsValid(u, applications[id],
                    ValidatedData([status |-> target], VendorApplicationUpdateFields))
       THEN /\ resp' = ResponseArg("application_update", u, id, target, 400)
            /\ UNCHANGED applications
       ELSE ApplicationUpdateSave("application_update", u, id, [status |-> target], target)

\* Admin site, change form of a vendor application with the status field set
\* to st.  The form runs VendorApplication.clean.  save_model turns the
\* applicant into a vendor before it saves an application whose status was
\* changed to approved; the save then fails in clean on that very applicant
\* and the view's transaction is rolled back.
VendorApplicationAdmin_save_model(a, id, st) ==
    /\ user_type[a] = "admin"
    /\ id \in ApplicationIds
    /\ UnchangedOthersV
    /\ UNCHANGED user_type
    /\ LET new == [applications[id] EXCEPT !.status = st]
           changed == st # applications[id].status
           types == IF changed /\ st = "approved"
                    THEN [user_type EXCEPT ![new.applicant] = "vendor"]
                    ELSE user_type
       IN  IF ~ ApplicationClean(new, user_type)
           THEN /\ resp' = ResponseArg("application_admin_save", a, id, st, 200)
                /\ UNCHANGED applications
           ELSE IF ~ ApplicationClean(new, types)
           THEN /\ resp' = ResponseArg("application_admin_save", a, id, st, 500)
                /\ UNCHANGED applications
           ELSE /\ applications' = [applications EXCEPT ![id] = new]
                /\ resp' = ResponseArg("application_admin_save", a, id, st, 302)

\* Admin site, bulk action approve_applications.  The pending rows of the
\* selection are read once, each with its applicant, newest first; each is
\* then saved as approved and its applicant becomes a vendor.  A save that
\* fails in clean ends the action with the rows before it done.
RECURSIVE ApproveLoop(_, _, _, _, _)
ApproveLoop(ids, a, apps, types, read_types) ==
    IF ids = {} THEN [apps |-> apps, types |-> types, ok |-> TRUE]
    ELSE LET id == CHOOSE i \in ids : \A j \in ids : i >= j
             new == [apps[id] EXCEPT !.status = "approved", !.reviewed_by = a]
         IN  IF ~ ApplicationClean(new, read_types)
             THEN [apps |-> apps, types |-> types, ok |-> FALSE]
             ELSE ApproveLoop(ids \ {id}, a, [apps EXCEPT ![id] = new],
                              [types EXCEPT ![new.applicant] = "vendor"], read_types)

approve_applications(a, ids) ==
    /\ user_type[a] = "admin"
    /\ ids \subseteq ApplicationIds
    /\ UnchangedOthersV
    /\ LET pending == {i \in ids : applications[i].status = "pending"}
           r == ApproveLoop(pending, a, applications, user_type, user_type)
       IN /\ applications' = r.apps
          /\ user_type' = r.types
          /\ resp' = ResponseArg("application_bulk_approve", a, 0, ids,
                                 IF r.ok THEN 302 ELSE 500)

\* Admin site, bulk action reject_applications: one UPDATE of the pending
\* rows of the selection.
reject_applications(a, ids) ==
    /\ user_type[a] = "admin"
    /\ ids \subseteq ApplicationIds
    /\ UnchangedOthersV
    /\ UNCHANGED user_type
    /\ applications' =
          [i \in ApplicationIds |->
              IF i \in ids /\ applications[i].status = "pending"
              THEN [applications[i] EXCEPT !.status = "rejected", !.reviewed_by = a]
              ELSE applications[i]]
    /\ resp' = ResponseArg("application_bulk_reject", a, 0, ids, 302)

ApplicationClients == {"s1", "s2", "v1", "a1"}

AllApplicationIds == 1..MaxApplications

NextApplications ==
    \/ \E u \in ApplicationClients, valid \in BOOLEAN : submit_vendor_application(u, valid)
    \/ \E u \in ApplicationClients, id \in 1..(MaxApplications + 1) :
          approve_vendor_application(u, id)
    \/ \E u \in ApplicationClients, id \in 1..(MaxApplications + 1) :
          reject_vendor_application(u, id)
    \/ \E u \in ApplicationClients, id \in AllApplicationIds, target \in ApplicationStatuses :
          VendorApplicationViewSet_update(u, id, target)
    \/ \E a \in Admins, id \in AllApplicationIds, st \in ApplicationStatuses :
          VendorApplicationAdmin_save_model(a, id, st)
    \/ \E a \in Admins, ids \in SUBSET AllApplicationIds : approve_applications(a, ids)
    \/ \E a \in Admins, ids \in SUBSET AllApplicationIds : reject_applications(a, ids)

SpecApplications == Init /\ [][NextApplications]_vars

\* C20 (as claimed): through every path the status of a vendor application
\* changes to approved or rejected only when its current status is pending
\* and the requester is an admin; otherwise the status stays as it was.
C20_OnlyPendingDecidedByAdmin ==
    [][ \A id \in ApplicationIds :
           (/\ id \in DOMAIN applications'
            /\ applications'[id].status # applications[id].status
            /\ applications'[id].status \in {"approved", "rejected"})
              => (/\ applications[id].status = "pending"
                  /\ user_type[resp'.by] = "admin")
      ]_vars

(***************************************************************************)
(* System announcements (AdminNotificationViewSet.send_announcement).      *)
(***************************************************************************)
MaxAnnouncementRows == 6

\* User.objects.all() in primary-key order.
UserOrder == <<"s1", "s2", "s3", "v1", "v2", "a1">>

\* NotificationService.send_system_announcement: the users, filtered by
\* user_type when one is given, each sent a system_announcement.
AnnouncementTargets(target) ==
    SelectSeq(UserOrder,
              LAMBDA u : /\ u \notin deleted_users
                         /\ (target # None => user_type[u] = target))

RECURSIVE send_system_announcement(_, _)
send_system_announcement(ns, users) ==
    IF users = << >> THEN ns
    ELSE send_system_announcement(
             send_notification(ns, Head(users), "system_announcement", 0), Tail(users))

\* POST .../send_announcement/ by user u; has_text says whether title and
\* message are both given.  The view's permission is IsAuthenticated.
send_announcement(u, has_text, target) ==
    /\ UnchangedOthersN
    /\ UNCHANGED <<channel_fault, clock>>
    /\ IF ~ has_text
       THEN /\ resp' = ResponseArg("send_announcement", u, 0, target, 400)
            /\ UNCHANGED <<notifications, preferences, pushed>>
       ELSE /\ Len(notifications) + Len(AnnouncementTargets(target)) <= MaxAnnouncementRows
            /\ LET ns == send_system_announcement(NotificationState, AnnouncementTargets(target)) IN
                  /\ notifications' = ns.rows
                  /\ preferences' = ns.prefs
                  /\ pushed' = ns.sent
            /\ resp' = ResponseArg("send_announcement", u, 0, target, 200)

AnnouncementClients == {"s1", "v1", "a1"}

AnnouncementTargetInputs == {None} \cup USER_TYPE_CHOICES

NextAnnounce ==
    \/ \E u \in AnnouncementClients, has_text \in BOOLEAN, target \in AnnouncementTargetInputs :
          send_announcement(u, has_text, target)
    \/ NotificationPreference_update("s1", [system_notifications |-> FALSE])

SpecAnnounce == Init /\ [][NextAnnounce]_vars

\* C21 (as claimed): a send_announcement request from a user whose user_type
\* is not admin creates no notification for any user.
C21_NonAdminAnnouncesNothing ==
    [][ (resp'.op = "send_announcement" /\ user_type[resp'.by] # "admin")
           => notifications' = notifications ]_vars

(***************************************************************************)
(* The four payment requests together, on payments stored by the admin     *)
(* site (the requests themselves never store one).                         *)
(***************************************************************************)
MaxRequestPayments == 2

NextPaymentRequests ==
    \/ \E u \in {"s1", "s2"}, date \in Dates : BookingCreate(u, "svcA", date, "pending")
    \/ \E a \in Admins, bk \in 1..MaxBookings, d \in PaymentDetailInputs,
          st \in {"pending", "successful"} :
          PaymentAdminAddUpTo(MaxRequestPayments, a, bk, 0, 1, d[1], d[2], d[3], d[4], st)
    \/ \E u \in PaymentClients, booking_id \in 0..MaxBookings, payment_method \in {None, "cash"} :
          create_payment(u, booking_id, payment_method)
    \/ \E u \in PaymentClients, i \in InitiateInputs, booking_id \in 0..1 :
          initiate_momo_payment(u, i[1], i[2], i[3], 0, booking_id)
    \/ \E u \in PaymentClients, pid \in 0..MaxRequestPayments, has_reference \in BOOLEAN :
          process_paystack_payment(u, pid, has_reference)
    \/ \E u \in PaymentClients, reference_id \in {None, "ref1"}, success \in BOOLEAN :
          verify_momo_payment(u, reference_id, success)

SpecPaymentRequests == Init /\ [][NextPaymentRequests]_vars

PaymentRequestOps == {"create_payment", "initiate", "process", "verify"}

C22_SuccessfulPayments(rows, booking_id) ==
    {i \in DOMAIN rows : rows[i].booking = booking_id /\ rows[i].status = "successful"}

\* C22 (as claimed): create_payment, initiate_momo_payment,
\* process_paystack_payment and verify_momo_payment requests keep every
\* booking at no more than one successful payment: no such request takes a
\* state where each booking has at most one to a state where one has two.
C22_AtMostOneSuccessfulPayment ==
    [][ (/\ resp'.op \in PaymentRequestOps
         /\ \A b \in BookingIds : Cardinality(C22_SuccessfulPayments(payments, b)) <= 1)
           => \A b \in BookingIds : Cardinality(C22_SuccessfulPayments(payments', b)) <= 1
      ]_vars

(***************************************************************************)
(* Booking creation by two workers at once.  A create request is three     *)
(* steps of its worker: the serializer's validation, Booking.full_clean,   *)
(* and the INSERT; each reads or writes the table as it stands at that     *)
(* step.                                                                   *)
(***************************************************************************)

\* Mutant of unique_service_booking: the table has no such constraint.
unique_service_booking_Off(row, rows) == TRUE

\* Booking.Meta.constraints: UniqueConstraint(fields=[service, booking_date]),
\* checked by the database when the row is inserted.
unique_service_booking(row, rows) ==
    ~ \E j \in DOMAIN rows :
          /\ rows[j].service = row.service
          /\ rows[j].booking_date = row.booking_date

UnchangedOthersC ==
    UNCHANGED <<user_type, payments, orders, reviews, rating, total_ratings,
                authVars, wsVars, order_items, applications, refresh_procs>>

\* create(): serializer.is_valid on the request data.
BookingCreateValidate(w, u, data) ==
    LET attrs == ValidatedData(data, BookingWritableFields) IN
    /\ create_procs[w] = << >>
    /\ UnchangedOthersC
    /\ UNCHANGED <<now, bookings, notifVars>>
    /\ IF \/ ~ validate_booking_date(attrs.booking_date)
          \/ ~ BookingSerializerValidate(attrs, 0, bookings)
       THEN /\ resp' = ResponseArg("booking_validate", u, 0, BookingRequestEcho(data), 400)
            /\ UNCHANGED create_procs
       ELSE /\ create_procs' = [create_procs EXCEPT
                                  ![w] = <<[pc |-> "clean", user |-> u, data |-> data]>>]
            /\ resp' = ResponseArg("booking_validate", u, 0, BookingRequestEcho(data), 0)

\* Booking.save, first half: full_clean.
BookingCreateClean(w) ==
    /\ create_procs[w] # << >>
    /\ create_procs[w][1].pc = "clean"
    /\ UnchangedOthersC
    /\ UNCHANGED <<now, bookings, notifVars>>
    /\ LET p == create_procs[w][1]
           row == BookingSavedRow(p.data, p.user)
       IN  IF ~ BookingClean(row, 0, bookings)
           THEN /\ \E code \in (IF user_type[p.user] = "student" THEN {400, 500} ELSE {500}) :
                      resp' = ResponseArg("booking_clean", p.user, 0,
                                          BookingRequestEcho(p.data), code)
                /\ create_procs' = [create_procs EXCEPT ![w] = << >>]
           ELSE /\ create_procs' = [create_procs EXCEPT ![w] = <<[p EXCEPT !.pc = "insert"]>>]
                /\ resp' = ResponseArg("booking_clean", p.user, 0, BookingRequestEcho(p.data), 0)

\* Booking.save, second half: the INSERT, then perform_create's notification.
\* An INSERT the constraint refuses raises IntegrityError, which nothing
\* above it handles.
BookingCreateInsert(w) ==
    /\ create_procs[w] # << >>
    /\ create_procs[w][1].pc = "insert"
    /\ UnchangedOthersC
    /\ UNCHANGED <<now, channel_fault, clock>>
    /\ create_procs' = [create_procs EXCEPT ![w] = << >>]
    /\ LET p == create_procs[w][1]
           row == BookingSavedRow(p.data, p.user)
       IN  IF ~ unique_service_booking(row, bookings)
           THEN /\ resp' = ResponseArg("booking_insert", p.user, 0,
                                       BookingRequestEcho(p.data), 500)
                /\ UNCHANGED <<bookings, notifications, preferences, pushed>>
           ELSE /\ Len(bookings) < MaxBookings
                /\ bookings' = Append(bookings, row)
                /\ LET ns == send_booking_notification(
                                  NotificationState, Len(bookings) + 1, row.service, row.student) IN
                      /\ notifications' = ns.rows
                      /\ preferences' = ns.prefs
                      /\ pushed' = ns.sent
                /\ resp' = ResponseArg("booking_insert", p.user, Len(bookings) + 1,
                                       BookingRequestEcho(p.data), 201)

ConcurrentCreateInputs ==
    { [service |-> svc, booking_date |-> date, booking_status |-> "pending"] :
         svc \in {"svcA", "svcB"}, date \in 1..MaxDate }

NextConcurrentCreate ==
    \/ \E w \in Workers, u \in {"s1", "s2"}, data \in ConcurrentCreateInputs :
          BookingCreateValidate(w, u, data)
    \/ \E w \in Workers : BookingCreateClean(w)
    \/ \E w \in Workers : BookingCreateInsert(w)

SpecConcurrentCreate == Init /\ [][NextConcurrentCreate]_vars

\* C23: when booking create requests for one service and booking_date run
\* concurrently, no two stored rows share a service and booking_date, and a
\* request whose INSERT meets a stored row of its slot fails and stores none.
C23_ConcurrentCreatesStoreOne ==
    /\ [](\A i, j \in BookingIds :
             (i # j /\ bookings[i].service = bookings[j].service)
                => bookings[i].booking_date # bookings[j].booking_date)
    /\ [][ (/\ resp'.op = "booking_insert"
            /\ \E w \in Workers :
                  /\ create_procs[w] # << >>
                  /\ create_procs'[w] = << >>
                  /\ \E j \in BookingIds :
                        /\ bookings[j].service = create_procs[w][1].data.service
                        /\ bookings[j].booking_date = create_procs[w][1].data.booking_date)
              => (bookings' = bookings /\ resp'.code = 500) ]_vars

\* Two requests for one slot both passed validation and full_clean; one was
\* stored and the other's INSERT was refused.
C23_Witness ==
    /\ resp.op = "booking_insert"
    /\ resp.code = 500
    /\ Len(bookings) = 1
    /\ bookings[1].service = resp.arg.service
    /\ bookings[1].booking_date = resp.arg.booking_date
    /\ bookings[1].booking_status = "pending"

\* C24 (as claimed): completed and cancelled are terminal: no request changes
\* the booking_status of a booking that is completed or cancelled.
C24_TerminalStatusesStay ==
    [][ \A id \in BookingIds :
           bookings[id].booking_status \in {"completed", "cancelled"}
              => bookings'[id].booking_status = bookings[id].booking_status ]_vars

\* C25 (as claimed): process_paystack_payment is all-or-nothing: a request it
\* answers with anything other than 200 has changed neither a payment's
\* status nor a booking's booking_status.
C25_ProcessAllOrNothing ==
    [][ (resp'.op = "process" /\ resp'.code # 200)
           => (payments' = payments /\ bookings' = bookings) ]_vars

(***************************************************************************)
(* refresh_token_view by two workers at once.  A request is two steps of   *)
(* its worker: the checks that read the blacklist and the user, and the    *)
(* INSERT of the BlacklistedToken row that precedes the answer.            *)
(***************************************************************************)

\* Mutant of BlacklistedToken_token_unique: the column is not unique.
BlacklistedToken_token_unique_Off(t, rows) == TRUE

\* BlacklistedToken.token: CharField(unique=True), checked by the database
\* when the row is inserted.
BlacklistedToken_token_unique(t, rows) == t \notin rows

UnchangedOthersF == UNCHANGED <<coreVars, wsVars, notifVars, order_items, applications, create_procs>>

\* refresh_token_view up to the generation of the new tokens.
RefreshTokenCheck(w, data) ==
    /\ refresh_procs[w] = << >>
    /\ UnchangedOthersF
    /\ IF data = << >>
       THEN RefreshRefuse("refresh_check", data, 400) /\ UNCHANGED refresh_procs
       ELSE IF data[1] \in blacklisted_tokens
       THEN RefreshRefuse("refresh_check", data, 401) /\ UNCHANGED refresh_procs
       ELSE IF ~ TokenVerifies(data[1])
       THEN RefreshRefuse("refresh_check", data, 401) /\ UNCHANGED refresh_procs
       ELSE IF refresh_tokens[data[1]].user \in deleted_users
       THEN RefreshRefuse("refresh_check", data, 401) /\ UNCHANGED refresh_procs
       ELSE /\ refresh_procs' = [refresh_procs EXCEPT ![w] = <<data[1]>>]
            /\ resp' = ResponseArg("refresh_check", None, data[1], 0, 0)
            /\ UNCHANGED authVars

\* BlacklistedToken.objects.create(token=..., user=user) and the answer.  A
\* refused INSERT raises IntegrityError into the blanket except: 500, and the
\* tokens generated for the request are never sent.
RefreshTokenRotate(w) ==
    /\ refresh_procs[w] # << >>
    /\ UnchangedOthersF
    /\ refresh_procs' = [refresh_procs EXCEPT ![w] = << >>]
    /\ LET t == refresh_procs[w][1] IN
          IF \/ ~ BlacklistedToken_token_unique(t, blacklisted_tokens)
             \/ refresh_tokens[t].user \in deleted_users
          THEN /\ resp' = ResponseArg("refresh_rotate", None, t, 0, 500)
               /\ UNCHANGED authVars
          ELSE /\ Len(refresh_tokens) < MaxTokens
               /\ Len(access_tokens) < MaxTokens
               /\ refresh_tokens' =
                     Append(refresh_tokens, [user |-> refresh_tokens[t].user, expired |-> FALSE])
               /\ access_tokens' =
                     Append(access_tokens, [user |-> refresh_tokens[t].user, expired |-> FALSE])
               /\ blacklisted_tokens' = blacklisted_tokens \cup {t}
               /\ used_refresh' = used_refresh \cup {t}
               /\ resp' = ResponseArg("refresh_rotate", None, t, 2, 200)
               /\ UNCHANGED <<outstanding_blacklist, deleted_users>>

NextConcurrentRefresh ==
    \/ \E u \in AuthClients, credentials_ok \in BOOLEAN : login_user(u, credentials_ok)
    \/ \E w \in Workers, data \in RefreshInputs : RefreshTokenCheck(w, data)
    \/ \E w \in Workers : RefreshTokenRotate(w)
    \/ \E t \in TokenIds : TokenExpires(t)

SpecConcurrentRefresh == Init /\ [][NextConcurrentRefresh]_vars

\* C26: of the refresh requests that present one refresh token, however they
\* interleave, at most one is answered with a new token pair: a request is
\* answered 200 only for a token that no earlier request was answered 200 for.
C26_OnePairPerToken ==
    [][ (resp'.op = "refresh_rotate" /\ resp'.code = 200)
           => resp'.obj \notin used_refresh ]_vars

\* Two requests with one valid token both passed the blacklist check; one was
\* answered with a pair and the other's INSERT was refused.
C26_Witness ==
    /\ resp.op = "refresh_rotate"
    /\ resp.code = 500
    /\ resp.obj \in used_refresh
    /\ ~ refresh_tokens[resp.obj].expired

\* A stored booking of any status holds the slot the request asks for.
C27_SlotTaken(echo) ==
    \E j \in BookingIds :
        /\ bookings[j].service = echo.service
        /\ bookings[j].booking_date = echo.booking_date

\* C27: a create request for a service and booking_date that a stored booking
\* holds, whatever that booking's status, is rejected and stores no row.
C27_TakenSlotIsRefused ==
    [][ (resp'.op = "booking_create" /\ C27_SlotTaken(resp'.arg))
           => (bookings' = bookings /\ resp'.code \in {400, 500}) ]_vars

\* A create request for the slot of a cancelled or completed booking was
\* refused.
C27_Witness ==
    /\ resp.op = "booking_create"
    /\ resp.code \in {400, 500}
    /\ \E j \in BookingIds :
          /\ bookings[j].service = resp.arg.service
          /\ bookings[j].booking_date = resp.arg.booking_date
          /\ bookings[j].booking_status \in {"cancelled", "completed"}
          /\ bookings[j].booking_date > now
          /\ ServiceRow(bookings[j].service).is_available
    /\ user_type[resp.by] = "student"

\* C28 (as claimed): after delete_review removes a review, the service's
\* total_ratings is the number of its stored reviews and its rating is their
\* average rounded to two decimals, or null with total_ratings 0 when none
\* remain.
C28_DeleteRecomputesRating ==
    [][ (resp'.op = "delete_review" /\ resp'.code = 200)
        => LET svc == resp'.arg
               ids == {i \in DOMAIN reviews' : reviews'[i].service = svc}
           IN  /\ total_ratings'[svc] = Cardinality(ids)
               /\ IF ids = {}
                  THEN rating'[svc] = << >>
                  ELSE /\ rating'[svc] # << >>
                       /\ C8_IsRounded(rating'[svc][1], SumRatings(reviews', ids),
                                       Cardinality(ids))
      ]_vars

\* C29 (as claimed): when a request, by whichever path, turns a vendor
\* application into an approved one, its applicant's user_type is vendor
\* afterwards.
C29_ApprovedApplicantIsVendor ==
    [][ \A id \in ApplicationIds :
           (/\ id \in DOMAIN applications'
            /\ applications[id].status # "approved"
            /\ applications'[id].status = "approved")
              => user_type'[applications'[id].applicant] = "vendor" ]_vars

(***************************************************************************)
(* Bookings of users whose role changes through a vendor application.      *)
(***************************************************************************)
NextRoleChange ==
    \/ \E u \in {"s1", "s2", "v1"}, date \in Dates : BookingCreate(u, "svcA", date, "pending")
    \/ \E u \in {"s1", "s2"}, id \in BookingIds, st \in {"pending", "cancelled"} :
          BookingUpdate(u, id, "svcA", bookings[id].booking_date, st)
    \/ \E u \in {"s1", "s2"}, id \in BookingIds : cancel(u, id)
    \/ \E u \in {"s1", "s2", "v1"} : submit_vendor_application(u, TRUE)
    \/ \E id \in AllApplicationIds : approve_vendor_application("a1", id)
    \/ \E id \in AllApplicationIds : reject_vendor_application("a1", id)
    \/ \E a \in Admins, ids \in SUBSET AllApplicationIds : approve_applications(a, ids)
    \/ Tick

SpecRoleChange == Init /\ [][NextRoleChange]_vars

\* C30 (as claimed): at every point the student of every stored booking has
\* user_type student, vendor-application approvals included.
C30_BookingStudentsAreStudents ==
    \A id \in BookingIds : user_type[bookings[id].student] = "student"

====
